---- MODULE Spec2Model ----
(***************************************************************************)
(* Model of the ASA Policy App backend: the FastAPI request handlers of    *)
(* app/routers (policies, bylaws, suggestions, auth) over the tables of    *)
(* the storage provider, with the identity gateway of app/core/auth.py.    *)
(* One action per request handler; a handler runs to completion (the       *)
(* sequential, non-overlapping request model).                             *)
(***************************************************************************)
EXTENDS Integers, Sequences, FiniteSets, TLC

\* ------------------------------------------------------------------ bounds

\* Number of timestamping requests (datetime.utcnow) of one run.
MaxClock == 3

\* ------------------------------------------------------------------ values

\* Python's None for an Optional field that was not supplied.
None == "None"
PolicyStatus == {"draft", "approved"}
ReviewStatus == {"confirm", "needs_work"}
SuggestionStatus == {"pending", "reviewed", "implemented", "rejected"}
UserRole == {"public", "admin", "policy_working_group"}

\* Accounts known to the identity provider; a bearer token is modelled by
\* the account it was issued for.
UserIds == {"u1", "u2", "u3"}
\* A syntactically present token the provider rejects, and an absent header.
BadToken == "bad"
NoToken == "absent"
Tokens == UserIds \cup {BadToken, NoToken}

\* The e-mail address the provider reports for an account (None: the
\* account has no e-mail, e.g. a phone sign-up).
Email(u) == CASE u = "u1" -> "a@x.com"
              [] u = "u2" -> "b@x.com"
              [] u = "u4" -> "d@x.com"
              [] OTHER    -> None

PolicyIds == {"1.1.1", "2.3.1"}
Names == {"Travel", "Lodging"}
Contents == {"...", "new text"}
BylawNumbers == {1, 2}

\* The surrogate keys (UUIDs) the store generates, and one it never does.
Uuid(n) == "uuid-" \o ToString(n)
UnknownId == "uuid-0"

VARIABLES
    users,            \* table users: set of rows [id, email, role]
    auth_users,       \* accounts whose tokens the identity provider accepts
    policies,         \* table policies
    policy_versions,  \* table policy_versions
    bylaws,           \* table bylaws
    suggestions,      \* table suggestions
    policy_reviews,   \* table policy_reviews, in storage-return order
    now,              \* datetime.utcnow(), a logical clock
    nextId,           \* the next surrogate key the store generates
    last,             \* the last request and its response
    inflight          \* per server process, the request it is part-way through

tables == <<users, policies, policy_versions, bylaws, suggestions, policy_reviews>>
vars == <<users, auth_users, policies, policy_versions, bylaws, suggestions,
          policy_reviews, now, nextId, last, inflight>>

\* The response record of a request: op, HTTP status code, bearer token,
\* the path/body identifier (a policy code or user id in target, a surrogate
\* key in id), the status value the body supplied, and the
\* returned body (a sequence; empty when the response carries none).
Response(op, code, tok, target, id, status, body) ==
    [op |-> op, code |-> code, tok |-> tok, target |-> target, id |-> id,
     status |-> status, body |-> body]

Max(S) == CHOOSE x \in S : \A y \in S : y <= x

\* ------------------------------------------------------- identity gateway

\* HTTPBearer (auto_error=True) rejects a request without credentials before
\* get_current_user runs; the status code it uses is the framework's choice.
NoCredentialCodes == {401, 403}

UserRows(uid) == {u \in users : u.id = uid}

\* db.auth.get_user(token): the provider accepts the token.
TokenAccepted(tok) == tok \in auth_users

\* A variant of get_current_user: the role is the one the account had when
\* its token was issued, whatever the users table holds now.
get_current_user_role_at_issuance(tok) ==
    [id    |-> tok,
     email |-> Email(tok),
     role  |-> CASE tok = "u1" -> "admin"
                 [] tok = "u2" -> "policy_working_group"
                 [] OTHER      -> "public"]

\* get_current_user: the identity of an accepted token; the role is the one
\* stored in the users row, "public" when there is no row.
get_current_user(tok) ==
    [id    |-> tok,
     email |-> Email(tok),
     role  |-> IF UserRows(tok) # {}
               THEN (CHOOSE u \in UserRows(tok) : TRUE).role
               ELSE "public"]

\* get_current_user's side effect: a missing role record is provisioned.
users_after_auth(tok) ==
    IF TokenAccepted(tok) /\ UserRows(tok) = {}
    THEN users \cup {[id |-> tok, email |-> Email(tok), role |-> "public"]}
    ELSE users

\* A variant of HasIdentity: every request counts as identified.
HasIdentity_unchecked(tok) == TRUE

\* get_optional_user: no error without credentials or with a rejected token.
HasIdentity(tok) == tok # NoToken /\ TokenAccepted(tok)

\* require_role(allowed_roles).role_checker
role_checker(current_user, allowed_roles) == current_user.role \in allowed_roles

\* A variant of AdminRoles: the working group passes require_admin.
AdminRoles_with_working_group == {"admin", "policy_working_group"}

AdminRoles == {"admin"}

\* A variant of SuggestionManagerRoles: every role passes.
SuggestionManagerRoles_with_public == {"admin", "policy_working_group", "public"}

SuggestionManagerRoles == {"admin", "policy_working_group"}

\* The status codes with which the dependency chain get_current_user ->
\* require_role(allowed_roles) rejects the request; empty when it passes.
DenyCodes(tok, allowed_roles) ==
    IF tok = NoToken THEN NoCredentialCodes
    ELSE IF ~TokenAccepted(tok) THEN {401}
    ELSE IF ~role_checker(get_current_user(tok), allowed_roles) THEN {403}
    ELSE {}

Passes(tok, allowed_roles) == DenyCodes(tok, allowed_roles) = {}

\* A request the guards reject: the handler body never runs, but the lazy
\* provisioning of get_current_user has already happened.
Denied(op, tok, allowed_roles) ==
    /\ \E code \in DenyCodes(tok, allowed_roles) :
           last' = Response(op, code, tok, None, None, None, <<>>)
    /\ users' = users_after_auth(tok)
    /\ UNCHANGED <<inflight, auth_users, policies, policy_versions, bylaws, suggestions,
                   policy_reviews, now, nextId>>

\* -------------------------------------------------------------- policies

PoliciesById(policy_id) == {r \in policies : r.policy_id = policy_id}

\* existing.data[0]
FirstRow(rows) == CHOOSE r \in rows : TRUE

convert_policy_from_db(row) ==
    [id |-> row.id, policy_id |-> row.policy_id, policy_name |-> row.name,
     section |-> row.section, policy_content |-> row.content,
     status |-> row.status, created_at |-> row.created_at,
     updated_at |-> row.updated_at, created_by |-> row.created_by,
     updated_by |-> row.updated_by]

\* A variant of policy_data: the caller's status is stored.
policy_data_trusts_status(policy, current_user) ==
    [policy_id  |-> policy.policy_id,
     name       |-> policy.policy_name,
     section    |-> policy.section,
     content    |-> policy.policy_content,
     status     |-> policy.status,
     created_at |-> now,
     updated_at |-> now,
     created_by |-> current_user.id,
     updated_by |-> current_user.id]

\* create_policy: the row it inserts.
policy_data(policy, current_user) ==
    [policy_id  |-> policy.policy_id,
     name       |-> policy.policy_name,
     section    |-> policy.section,
     content    |-> policy.policy_content,
     status     |-> "draft",
     created_at |-> now,
     updated_at |-> now,
     created_by |-> current_user.id,
     updated_by |-> current_user.id]

\* A variant of policy_id_exists: the existence check is skipped.
policy_id_exists_unchecked(policy_id) == FALSE

\* create_policy: "Check if policy_id already exists".
policy_id_exists(policy_id) == PoliciesById(policy_id) # {}

create_policy(tok, policy) ==
    \/ Denied("create_policy", tok, SuggestionManagerRoles)
    \/ /\ Passes(tok, SuggestionManagerRoles)
       /\ IF policy_id_exists(policy.policy_id)
          THEN /\ last' = Response("create_policy", 400, tok, policy.policy_id, None,
                                   None, <<>>)
               /\ UNCHANGED <<policies, now, nextId>>
          ELSE /\ now < MaxClock
               /\ LET row == [id |-> Uuid(nextId)] @@
                             policy_data(policy, get_current_user(tok))
                  IN /\ policies' = policies \cup {row}
                     /\ last' = Response("create_policy", 201, tok, policy.policy_id,
                                         row.id, policy.status,
                                         <<convert_policy_from_db(row)>>)
               /\ now' = now + 1
               /\ nextId' = nextId + 1
       /\ users' = users_after_auth(tok)
       /\ UNCHANGED <<inflight, auth_users, policy_versions, bylaws, suggestions, policy_reviews>>

\* A variant of update_data: a supplied status is written.
update_data_trusts_status(policy_update) ==
    [name    |-> policy_update.policy_name,
     section |-> policy_update.section,
     content |-> policy_update.policy_content,
     status  |-> IF policy_update.status # None THEN policy_update.status ELSE "draft"]

\* update_policy: the columns it writes (None: the key is absent from the
\* dict).  status is always present and always "draft".
update_data(policy_update) ==
    [name    |-> policy_update.policy_name,
     section |-> policy_update.section,
     content |-> policy_update.policy_content,
     status  |-> "draft"]

\* A variant of has_changes: every update is snapshotted.
has_changes_always(policy_update, existing_policy) == TRUE

\* update_policy: "Only save version if something actually changed".
has_changes(policy_update, existing_policy) ==
    \/ policy_update.policy_name # None /\ policy_update.policy_name # existing_policy.name
    \/ policy_update.section # None /\ policy_update.section # existing_policy.section
    \/ policy_update.policy_content # None
          /\ policy_update.policy_content # existing_policy.content
    \/ update_data(policy_update).status # existing_policy.status

\* A variant of VersionsOf: the versions of every policy.
VersionsOf_unscoped(policy_uuid) == policy_versions

VersionsOf(policy_uuid) == {v \in policy_versions : v.policy_id = policy_uuid}

\* A variant of next_version: the latest version number is reused.
next_version_reuses(policy_uuid) ==
    IF VersionsOf(policy_uuid) # {}
    THEN Max({v.version_number : v \in VersionsOf(policy_uuid)})
    ELSE 1

\* select version_number ... order desc limit 1, plus 1; 1 without a version.
next_version(policy_uuid) ==
    IF VersionsOf(policy_uuid) # {}
    THEN Max({v.version_number : v \in VersionsOf(policy_uuid)}) + 1
    ELSE 1

\* update_policy: the snapshot of the pre-update row.
version_data(existing_policy, current_user) ==
    [policy_id      |-> existing_policy.id,
     version_number |-> next_version(existing_policy.id),
     name           |-> existing_policy.name,
     section        |-> existing_policy.section,
     content        |-> existing_policy.content,
     status         |-> existing_policy.status,
     created_at     |-> now,
     created_by     |-> current_user.id]

\* The store's UPDATE of one policies row with the dict of update_policy.
apply_policy_update(row, data, current_user) ==
    [row EXCEPT !.name = IF data.name # None THEN data.name ELSE @,
                !.section = IF data.section # None THEN data.section ELSE @,
                !.content = IF data.content # None THEN data.content ELSE @,
                !.status = data.status,
                !.updated_at = now,
                !.updated_by = current_user.id]

update_policy(tok, policy_id, policy_update) ==
    \/ Denied("update_policy", tok, SuggestionManagerRoles)
    \/ /\ Passes(tok, SuggestionManagerRoles)
       /\ IF PoliciesById(policy_id) = {}
          THEN /\ last' = Response("update_policy", 404, tok, policy_id, None, None, <<>>)
               /\ UNCHANGED <<policies, policy_versions, now, nextId>>
          ELSE LET existing_policy == FirstRow(PoliciesById(policy_id))
                   current_user == get_current_user(tok)
                   updated(r) == apply_policy_update(
                                     r, update_data(policy_update), current_user)
               IN /\ now < MaxClock
                  /\ IF has_changes(policy_update, existing_policy)
                     THEN /\ policy_versions' = policy_versions \cup
                                 {[id |-> Uuid(nextId)] @@
                                  version_data(existing_policy, current_user)}
                          /\ nextId' = nextId + 1
                     ELSE UNCHANGED <<policy_versions, nextId>>
                  /\ policies' = {IF r.policy_id = policy_id THEN updated(r) ELSE r :
                                     r \in policies}
                  /\ now' = now + 1
                  /\ last' = Response("update_policy", 200, tok, policy_id,
                                      existing_policy.id, policy_update.status,
                                      <<convert_policy_from_db(updated(existing_policy))>>)
       /\ users' = users_after_auth(tok)
       /\ UNCHANGED <<inflight, auth_users, bylaws, suggestions, policy_reviews>>

\* A variant of delete_policy: the delete cascades to the version and
\* suggestion rows of the policy.
delete_policy_cascading(tok, policy_id) ==
    \/ Denied("delete_policy", tok, AdminRoles)
    \/ /\ Passes(tok, AdminRoles)
       /\ IF PoliciesById(policy_id) = {}
          THEN /\ last' = Response("delete_policy", 404, tok, policy_id, None, None, <<>>)
               /\ UNCHANGED <<policies, policy_versions, suggestions>>
          ELSE LET policy_uuid == FirstRow(PoliciesById(policy_id)).id
               IN /\ policies' = policies \ PoliciesById(policy_id)
                  /\ policy_versions' =
                         {v \in policy_versions : v.policy_id # policy_uuid}
                  /\ suggestions' = {s \in suggestions : s.policy_id # policy_uuid}
                  /\ last' = Response("delete_policy", 204, tok, policy_id,
                                      policy_uuid, None, <<>>)
       /\ users' = users_after_auth(tok)
       /\ UNCHANGED <<inflight, auth_users, bylaws, policy_reviews, now, nextId>>

delete_policy(tok, policy_id) ==
    \/ Denied("delete_policy", tok, AdminRoles)
    \/ /\ Passes(tok, AdminRoles)
       /\ IF PoliciesById(policy_id) = {}
          THEN /\ last' = Response("delete_policy", 404, tok, policy_id, None, None, <<>>)
               /\ UNCHANGED policies
          ELSE /\ policies' = policies \ PoliciesById(policy_id)
               /\ last' = Response("delete_policy", 204, tok, policy_id,
                                   FirstRow(PoliciesById(policy_id)).id, None, <<>>)
       /\ users' = users_after_auth(tok)
       /\ UNCHANGED <<inflight, auth_users, policy_versions, bylaws, suggestions,
                      policy_reviews, now, nextId>>

\* approve_policy / approve_bylaw: the columns they write.
approve_data(row, current_user) ==
    [row EXCEPT !.status = "approved",
                !.updated_at = now,
                !.updated_by = current_user.id]

\* A variant of already_approved: the check is skipped.
already_approved_skipped(existing) == FALSE

\* approve_policy / approve_bylaw: "Check if already approved".
already_approved(existing) == existing.status = "approved"

approve_policy(tok, policy_id) ==
    \/ Denied("approve_policy", tok, AdminRoles)
    \/ /\ Passes(tok, AdminRoles)
       /\ IF PoliciesById(policy_id) = {}
          THEN /\ last' = Response("approve_policy", 404, tok, policy_id, None, None, <<>>)
               /\ UNCHANGED <<policies, now>>
          ELSE LET existing_policy == FirstRow(PoliciesById(policy_id))
                   approved(r) == approve_data(r, get_current_user(tok))
               IN IF already_approved(existing_policy)
                  THEN /\ last' = Response("approve_policy", 400, tok, policy_id,
                                           existing_policy.id, None, <<>>)
                       /\ UNCHANGED <<policies, now>>
                  ELSE /\ now < MaxClock
                       /\ policies' = {IF r.policy_id = policy_id THEN approved(r)
                                       ELSE r : r \in policies}
                       /\ now' = now + 1
                       /\ last' = Response("approve_policy", 200, tok, policy_id,
                                     existing_policy.id, None,
                                     <<convert_policy_from_db(approved(existing_policy))>>)
       /\ users' = users_after_auth(tok)
       /\ UNCHANGED <<inflight, auth_users, policy_versions, bylaws, suggestions,
                      policy_reviews, nextId>>

\* ---------------------------------------------------------------- bylaws

BylawsById(bylaw_id) == {r \in bylaws : r.id = bylaw_id}
BylawsByNumber(number) == {r \in bylaws : r.number = number}

convert_bylaw_from_db(row) ==
    [id |-> row.id, bylaw_number |-> row.number, bylaw_title |-> row.title,
     bylaw_content |-> row.content, status |-> row.status,
     created_at |-> row.created_at, updated_at |-> row.updated_at,
     created_by |-> row.created_by, updated_by |-> row.updated_by]

\* create_bylaw: the row it inserts.
bylaw_data(bylaw, current_user) ==
    [number     |-> bylaw.bylaw_number,
     title      |-> bylaw.bylaw_title,
     content    |-> bylaw.bylaw_content,
     status     |-> "draft",
     created_at |-> now,
     updated_at |-> now,
     created_by |-> current_user.id,
     updated_by |-> current_user.id]

create_bylaw(tok, bylaw) ==
    \/ Denied("create_bylaw", tok, SuggestionManagerRoles)
    \/ /\ Passes(tok, SuggestionManagerRoles)
       /\ IF BylawsByNumber(bylaw.bylaw_number) # {}
          THEN /\ last' = Response("create_bylaw", 400, tok, None, None, None, <<>>)
               /\ UNCHANGED <<bylaws, now, nextId>>
          ELSE /\ now < MaxClock
               /\ LET row == [id |-> Uuid(nextId)] @@
                             bylaw_data(bylaw, get_current_user(tok))
                  IN /\ bylaws' = bylaws \cup {row}
                     /\ last' = Response("create_bylaw", 201, tok, None, row.id,
                                         bylaw.status, <<convert_bylaw_from_db(row)>>)
               /\ now' = now + 1
               /\ nextId' = nextId + 1
       /\ users' = users_after_auth(tok)
       /\ UNCHANGED <<inflight, auth_users, policies, policy_versions, suggestions,
                      policy_reviews>>

\* update_bylaw: the store's UPDATE of one bylaws row with update_data
\* (an Optional field that is None is absent from the dict; a bylaw_number
\* is an integer > 0, and 0 stands for its None).
apply_bylaw_update(row, bylaw_update, current_user) ==
    [row EXCEPT !.number = IF bylaw_update.bylaw_number # 0
                           THEN bylaw_update.bylaw_number ELSE @,
                !.title = IF bylaw_update.bylaw_title # None
                          THEN bylaw_update.bylaw_title ELSE @,
                !.content = IF bylaw_update.bylaw_content # None
                            THEN bylaw_update.bylaw_content ELSE @,
                !.status = "draft",
                !.updated_at = now,
                !.updated_by = current_user.id]

update_bylaw(tok, bylaw_id, bylaw_update) ==
    \/ Denied("update_bylaw", tok, SuggestionManagerRoles)
    \/ /\ Passes(tok, SuggestionManagerRoles)
       /\ IF BylawsById(bylaw_id) = {}
          THEN /\ last' = Response("update_bylaw", 404, tok, None, bylaw_id, None, <<>>)
               /\ UNCHANGED <<bylaws, now>>
          ELSE LET updated(r) == apply_bylaw_update(r, bylaw_update,
                                                    get_current_user(tok))
               IN /\ now < MaxClock
                  /\ bylaws' = {IF r.id = bylaw_id THEN updated(r) ELSE r : r \in bylaws}
                  /\ now' = now + 1
                  /\ last' = Response("update_bylaw", 200, tok, None, bylaw_id,
                                bylaw_update.status,
                                <<convert_bylaw_from_db(updated(FirstRow(BylawsById(bylaw_id))))>>)
       /\ users' = users_after_auth(tok)
       /\ UNCHANGED <<inflight, auth_users, policies, policy_versions, suggestions,
                      policy_reviews, nextId>>

approve_bylaw(tok, bylaw_id) ==
    \/ Denied("approve_bylaw", tok, AdminRoles)
    \/ /\ Passes(tok, AdminRoles)
       /\ IF BylawsById(bylaw_id) = {}
          THEN /\ last' = Response("approve_bylaw", 404, tok, None, bylaw_id, None, <<>>)
               /\ UNCHANGED <<bylaws, now>>
          ELSE LET existing_bylaw == FirstRow(BylawsById(bylaw_id))
                   approved(r) == approve_data(r, get_current_user(tok))
               IN IF already_approved(existing_bylaw)
                  THEN /\ last' = Response("approve_bylaw", 400, tok, None, bylaw_id,
                                           None, <<>>)
                       /\ UNCHANGED <<bylaws, now>>
                  ELSE /\ now < MaxClock
                       /\ bylaws' = {IF r.id = bylaw_id THEN approved(r) ELSE r :
                                        r \in bylaws}
                       /\ now' = now + 1
                       /\ last' = Response("approve_bylaw", 200, tok, None, bylaw_id, None,
                                     <<convert_bylaw_from_db(approved(existing_bylaw))>>)
       /\ users' = users_after_auth(tok)
       /\ UNCHANGED <<inflight, auth_users, policies, policy_versions, suggestions,
                      policy_reviews, nextId>>

delete_bylaw(tok, bylaw_id) ==
    \/ Denied("delete_bylaw", tok, AdminRoles)
    \/ /\ Passes(tok, AdminRoles)
       /\ IF BylawsById(bylaw_id) = {}
          THEN /\ last' = Response("delete_bylaw", 404, tok, None, bylaw_id, None, <<>>)
               /\ UNCHANGED bylaws
          ELSE /\ bylaws' = bylaws \ BylawsById(bylaw_id)
               /\ last' = Response("delete_bylaw", 204, tok, None, bylaw_id, None, <<>>)
       /\ users' = users_after_auth(tok)
       /\ UNCHANGED <<inflight, auth_users, policies, policy_versions, suggestions,
                      policy_reviews, now, nextId>>

\* ----------------------------------------------------------- suggestions

SuggestionsById(suggestion_id) == {r \in suggestions : r.id = suggestion_id}

convert_suggestion_from_db(row) ==
    [id |-> row.id, policy_id |-> row.policy_id, bylaw_id |-> row.bylaw_id,
     suggestion |-> row.suggestion, status |-> row.status,
     created_at |-> row.created_at, updated_at |-> row.updated_at,
     policy_id_text |-> None, policy_name |-> None, bylaw_number |-> None,
     bylaw_title |-> None]

\* The only validation of the two target identifiers:
\* `not suggestion.policy_id and not suggestion.bylaw_id`.
no_target(suggestion) == suggestion.policy_id = None /\ suggestion.bylaw_id = None

suggestion_data(suggestion, policy_uuid, bylaw_uuid) ==
    [policy_id  |-> policy_uuid,
     bylaw_id   |-> bylaw_uuid,
     suggestion |-> suggestion.suggestion,
     status     |-> suggestion.status,
     created_at |-> now,
     updated_at |-> now]

\* POST /api/suggestions: no credentials are read. Each supplied identifier
\* is resolved to the key of its row (404 when it has none); the row stores
\* whatever was resolved.
create_suggestion(suggestion) ==
    LET policy_check == IF suggestion.policy_id = None THEN {}
                        ELSE PoliciesById(suggestion.policy_id)
        bylaw_check  == IF suggestion.bylaw_id = None THEN {}
                        ELSE BylawsById(suggestion.bylaw_id)
        policy_uuid  == IF suggestion.policy_id = None THEN None
                        ELSE FirstRow(policy_check).id
        bylaw_uuid   == IF suggestion.bylaw_id = None THEN None
                        ELSE FirstRow(bylaw_check).id
        row == [id |-> Uuid(nextId)]
               @@ suggestion_data(suggestion, policy_uuid, bylaw_uuid)
        Fails(code) ==
            /\ last' = Response("create_suggestion", code, NoToken,
                                suggestion.policy_id, suggestion.bylaw_id, None, <<>>)
            /\ UNCHANGED <<suggestions, now, nextId>>
    IN /\ IF no_target(suggestion) THEN Fails(400)
          ELSE IF suggestion.policy_id # None /\ policy_check = {} THEN Fails(404)
          ELSE IF suggestion.bylaw_id # None /\ bylaw_check = {} THEN Fails(404)
          ELSE /\ now < MaxClock
               /\ suggestions' = suggestions \cup {row}
               /\ now' = now + 1
               /\ nextId' = nextId + 1
               /\ last' = Response("create_suggestion", 201, NoToken,
                                   suggestion.policy_id, suggestion.bylaw_id,
                                   suggestion.status,
                                   <<convert_suggestion_from_db(row)>>)
       /\ UNCHANGED <<inflight, users, auth_users, policies, policy_versions, bylaws,
                      policy_reviews>>

\* A variant of delete_suggestion without the existence check.
delete_suggestion_silent(tok, suggestion_id) ==
    \/ Denied("delete_suggestion", tok, SuggestionManagerRoles)
    \/ /\ Passes(tok, SuggestionManagerRoles)
       /\ suggestions' = suggestions \ SuggestionsById(suggestion_id)
       /\ last' = Response("delete_suggestion", 204, tok, None, suggestion_id,
                           None, <<>>)
       /\ users' = users_after_auth(tok)
       /\ UNCHANGED <<inflight, auth_users, policies, policy_versions, bylaws,
                      policy_reviews, now, nextId>>

delete_suggestion(tok, suggestion_id) ==
    \/ Denied("delete_suggestion", tok, SuggestionManagerRoles)
    \/ /\ Passes(tok, SuggestionManagerRoles)
       /\ IF SuggestionsById(suggestion_id) = {}
          THEN /\ last' = Response("delete_suggestion", 404, tok, None, suggestion_id,
                                   None, <<>>)
               /\ UNCHANGED suggestions
          ELSE /\ suggestions' = suggestions \ SuggestionsById(suggestion_id)
               /\ last' = Response("delete_suggestion", 204, tok, None, suggestion_id,
                                   None, <<>>)
       /\ users' = users_after_auth(tok)
       /\ UNCHANGED <<inflight, auth_users, policies, policy_versions, bylaws,
                      policy_reviews, now, nextId>>

\* ---------------------------------------------------------------- reviews

\* The rows of one policy code, in the order the store returns them.
ReviewsOf(policy_id) == SelectSeq(policy_reviews, LAMBDA r : r.policy_id = policy_id)

\* A variant of existing_review that never finds the stored row.
existing_review_never_found(policy_id, user_email) == <<>>

\* existing_review: .eq("policy_id", ...).eq("user_email", ...)
existing_review(policy_id, user_email) ==
    SelectSeq(policy_reviews,
              LAMBDA r : r.policy_id = policy_id /\ r.user_email = user_email)

review_data(policy_id, user_email, review) ==
    [policy_id     |-> policy_id,
     user_email    |-> user_email,
     review_status |-> review.review_status,
     updated_at    |-> now]

\* POST /api/policies/{policy_id}/reviews. The identity is optional at the
\* gateway (get_optional_user) and required by the handler.
submit_policy_review(tok, policy_id, review) ==
    LET current_user == get_current_user(tok)
        \* current_user["email"], else the e-mail of the users row
        user_email == IF current_user.email # None THEN current_user.email
                      ELSE LET user_response ==
                                   {u \in users_after_auth(tok) : u.id = tok}
                           IN IF user_response # {}
                              THEN FirstRow(user_response).email
                              ELSE None
        data == review_data(policy_id, user_email, review)
        Fails(code) ==
            /\ last' = Response("submit_policy_review", code, tok, policy_id, None,
                                None, <<>>)
            /\ UNCHANGED <<policy_reviews, now, nextId>>
    IN /\ IF ~HasIdentity(tok) THEN Fails(401)
          ELSE IF user_email = None THEN Fails(400)
          ELSE IF PoliciesById(policy_id) = {} THEN Fails(404)
          ELSE /\ now < MaxClock
               /\ now' = now + 1
               /\ IF existing_review(policy_id, user_email) # <<>>
                  THEN /\ policy_reviews' =
                             [i \in 1..Len(policy_reviews) |->
                                 IF /\ policy_reviews[i].policy_id = policy_id
                                    /\ policy_reviews[i].user_email = user_email
                                 THEN data @@ policy_reviews[i]
                                 ELSE policy_reviews[i]]
                       /\ UNCHANGED nextId
                  ELSE /\ policy_reviews' =
                             Append(policy_reviews,
                                    [id |-> Uuid(nextId), created_at |-> now] @@ data)
                       /\ nextId' = nextId + 1
               /\ last' = Response("submit_policy_review", 201, tok, policy_id, None,
                                   review.review_status, <<>>)
       /\ users' = IF HasIdentity(tok) THEN users_after_auth(tok) ELSE users
       /\ UNCHANGED <<inflight, auth_users, policies, policy_versions, bylaws, suggestions>>

Emails(rows) == [i \in 1..Len(rows) |-> rows[i].user_email]

\* A variant of confirmed_emails that lists every reviewer.
confirmed_emails_unfiltered(rows) == Emails(rows)

confirmed_emails(rows) ==
    Emails(SelectSeq(rows, LAMBDA r : r.review_status = "confirm"))

needs_work_emails(rows) ==
    Emails(SelectSeq(rows, LAMBDA r : r.review_status = "needs_work"))

PolicyReviewResponse(people) == [numberOfPeople |-> Len(people), people |-> people]

PolicyReviewsResponse(rows) ==
    [confirmed  |-> PolicyReviewResponse(confirmed_emails(rows)),
     needs_work |-> PolicyReviewResponse(needs_work_emails(rows))]

\* GET /api/policies/{policy_id}/reviews
get_policy_reviews(tok, policy_id) ==
    /\ IF PoliciesById(policy_id) = {}
       THEN last' = Response("get_policy_reviews", 404, tok, policy_id, None, None, <<>>)
       ELSE last' = Response("get_policy_reviews", 200, tok, policy_id, None, None,
                             <<PolicyReviewsResponse(ReviewsOf(policy_id))>>)
    /\ users' = IF HasIdentity(tok) THEN users_after_auth(tok) ELSE users
    /\ UNCHANGED <<inflight, auth_users, policies, policy_versions, bylaws, suggestions,
                   policy_reviews, now, nextId>>

\* A variant of reset_all_policy_reviews: only the confirm rows are deleted.
reset_all_policy_reviews_confirm_only(tok) ==
    \/ Denied("reset_all_policy_reviews", tok, AdminRoles)
    \/ /\ Passes(tok, AdminRoles)
       /\ policy_reviews' =
              SelectSeq(policy_reviews, LAMBDA r : r.review_status # "confirm")
       /\ last' = Response("reset_all_policy_reviews", 200, tok, None, None, None,
                           <<[deleted_count |-> Len(policy_reviews)]>>)
       /\ users' = users_after_auth(tok)
       /\ UNCHANGED <<inflight, auth_users, policies, policy_versions, bylaws, suggestions,
                      now, nextId>>

\* DELETE /api/policies/reviews/reset-all
reset_all_policy_reviews(tok) ==
    \/ Denied("reset_all_policy_reviews", tok, AdminRoles)
    \/ /\ Passes(tok, AdminRoles)
       /\ policy_reviews' = <<>>
       /\ last' = Response("reset_all_policy_reviews", 200, tok, None, None, None,
                           <<[deleted_count |-> Len(policy_reviews)]>>)
       /\ users' = users_after_auth(tok)
       /\ UNCHANGED <<inflight, auth_users, policies, policy_versions, bylaws, suggestions,
                      now, nextId>>

\* ------------------------------------------------------------------ users

\* DELETE /api/auth/users/{user_id}. The role test is the handler's own; the
\* removal of the account at the identity provider is best effort, its
\* failure swallowed.
delete_user(tok, user_id) ==
    \/ Denied("delete_user", tok, AdminRoles)
    \/ /\ Passes(tok, AdminRoles)
       /\ IF user_id = get_current_user(tok).id
          THEN /\ last' = Response("delete_user", 400, tok, user_id, None, None, <<>>)
               /\ UNCHANGED <<users, auth_users>>
          ELSE IF UserRows(user_id) = {}
          THEN /\ last' = Response("delete_user", 404, tok, user_id, None, None, <<>>)
               /\ UNCHANGED <<users, auth_users>>
          ELSE /\ users' = users \ UserRows(user_id)
               /\ auth_users' \in {auth_users, auth_users \ {user_id}}
               /\ last' = Response("delete_user", 200, tok, user_id, None, None,
                                   <<[deleted_user_id |-> user_id]>>)
       /\ UNCHANGED <<inflight, policies, policy_versions, bylaws, suggestions,
                      policy_reviews, now, nextId>>

\* ------------------------------------------------------------------- text

\* The characters of the text values the requests and rows carry.
Chars(s) ==
    CASE s = "Travel"   -> <<"T", "r", "a", "v", "e", "l">>
      [] s = "Lodging"  -> <<"L", "o", "d", "g", "i", "n", "g">>
      [] s = "..."      -> <<".", ".", ".">>
      [] s = "new text" -> <<"n", "e", "w", " ", "t", "e", "x", "t">>
      [] s = "1.1.1"    -> <<"1", ".", "1", ".", "1">>
      [] s = "2.3.1"    -> <<"2", ".", "3", ".", "1">>
      [] s = "TRAV"     -> <<"T", "R", "A", "V">>
      [] s = "2.3"      -> <<"2", ".", "3">>
      [] s = "1"        -> <<"1">>
      [] s = "2"        -> <<"2">>
      [] OTHER          -> <<>>

\* str.lower(), character by character.
lower(cs) ==
    [i \in DOMAIN cs |->
        CASE cs[i] = "T" -> "t" [] cs[i] = "R" -> "r" [] cs[i] = "A" -> "a"
          [] cs[i] = "V" -> "v" [] cs[i] = "L" -> "l" [] OTHER -> cs[i]]

\* Python's `sub in s` on strings.
Contains(sub, s) ==
    \E i \in 0..(Len(s) - Len(sub)) : SubSeq(s, i + 1, i + Len(sub)) = sub

\* dict.get(key, default)
Get(d, key, default) == IF key \in DOMAIN d THEN d[key] ELSE default

\* The position of a text value in the store's ascending order.
TextRank(s) == CASE s = "1" -> 1 [] s = "2" -> 2
                 [] s = "1.1.1" -> 1 [] s = "2.3.1" -> 2
                 [] OTHER -> 0

\* query.range(offset, offset + limit - 1) applied to the ordered rows.
range(rows, offset, limit) ==
    SubSeq(rows, offset + 1,
           IF offset + limit < Len(rows) THEN offset + limit ELSE Len(rows))

\* A response to a read request: the query parameters are kept with it.
ReadResponse(op, code, tok, query, body) ==
    [query |-> query] @@ Response(op, code, tok, None, None, None, body)

\* ----------------------------------------------------------- policy reads

\* .order("section").order("policy_id")
PolicyOrderKey(r) == TextRank(r.section) * 10 + TextRank(r.policy_id)

RECURSIVE order_policies(_)
order_policies(rows) ==
    IF rows = {} THEN <<>>
    ELSE LET first == CHOOSE r \in rows :
                          \A q \in rows : PolicyOrderKey(r) <= PolicyOrderKey(q)
         IN <<first>> \o order_policies(rows \ {first})

\* [convert_policy_from_db(row) for row in response.data]
policies_from_db(rows) == [i \in DOMAIN rows |-> convert_policy_from_db(rows[i])]

\* The search predicate of get_policies, on the converted row.
policy_search(p, search) ==
    LET search_lower == lower(Chars(search))
    IN \/ Contains(search_lower, lower(Chars(Get(p, "policy_name", ""))))
       \/ Contains(search_lower, lower(Chars(Get(p, "policy_id", ""))))
       \/ Contains(search_lower, lower(Chars(Get(p, "policy_content", ""))))

\* The search predicate of get_approved_policies, on the converted row.
approved_policy_search(p, search) ==
    LET search_lower == lower(Chars(search))
    IN \/ Contains(search_lower, lower(Chars(Get(p, "name", ""))))
       \/ Contains(search_lower, lower(Chars(Get(p, "policy_id", ""))))
       \/ Contains(search_lower, lower(Chars(Get(p, "content", ""))))

\* GET /api/policies: the store filters, orders and pages; the search runs
\* afterwards, on the page.
policies_page(query) ==
    LET matching == {r \in policies :
                        /\ query.status # None => r.status = query.status
                        /\ query.section # None => r.section = query.section
                        /\ query.policy_id # None => r.policy_id = query.policy_id}
        response == range(order_policies(matching), query.offset, query.limit)
        converted == policies_from_db(response)
    IN IF query.search # None
       THEN SelectSeq(converted, LAMBDA p : policy_search(p, query.search))
       ELSE converted

get_policies(tok, query) ==
    \/ Denied("get_policies", tok, SuggestionManagerRoles)
    \/ /\ Passes(tok, SuggestionManagerRoles)
       /\ last' = ReadResponse("get_policies", 200, tok, query, policies_page(query))
       /\ users' = users_after_auth(tok)
       /\ UNCHANGED <<inflight, auth_users, policies, policy_versions, bylaws, suggestions,
                      policy_reviews, now, nextId>>

\* GET /api/policies/approved: no credentials are read.
approved_policies(query) ==
    LET matching == {r \in policies :
                        /\ r.status = "approved"
                        /\ query.section # None => r.section = query.section}
        converted == policies_from_db(order_policies(matching))
    IN IF query.search # None
       THEN SelectSeq(converted, LAMBDA p : approved_policy_search(p, query.search))
       ELSE converted

get_approved_policies(query) ==
    /\ last' = ReadResponse("get_approved_policies", 200, NoToken, query,
                            approved_policies(query))
    /\ UNCHANGED <<inflight, users, auth_users, policies, policy_versions, bylaws,
                   suggestions, policy_reviews, now, nextId>>

\* A variant of approved_policy_rows that ignores the status.
approved_policy_rows_any_status(policy_id) == PoliciesById(policy_id)

\* .eq("policy_id", policy_id).eq("status", "approved")
approved_policy_rows(policy_id) ==
    {r \in PoliciesById(policy_id) : r.status = "approved"}

\* GET /api/policies/{policy_id}: no credentials are read.
get_approved_policy_by_id(policy_id) ==
    /\ IF approved_policy_rows(policy_id) = {}
       THEN last' = Response("get_approved_policy_by_id", 404, NoToken, policy_id,
                             None, None, <<>>)
       ELSE last' = Response("get_approved_policy_by_id", 200, NoToken, policy_id,
                             None, None,
                             <<convert_policy_from_db(
                                   FirstRow(approved_policy_rows(policy_id)))>>)
    /\ UNCHANGED <<inflight, users, auth_users, policies, policy_versions, bylaws,
                   suggestions, policy_reviews, now, nextId>>

convert_version_from_db(row, policy_uuid) ==
    [id |-> policy_uuid, policy_id |-> "", policy_name |-> row.name,
     section |-> row.section, policy_content |-> row.content,
     status |-> row.status, created_at |-> row.created_at,
     updated_at |-> row.created_at, created_by |-> row.created_by,
     updated_by |-> row.created_by]

\* A variant of order_versions: oldest first.
RECURSIVE order_versions_ascending(_)
order_versions_ascending(rows) ==
    IF rows = {} THEN <<>>
    ELSE LET first == CHOOSE v \in rows :
                          \A w \in rows : v.version_number <= w.version_number
         IN <<first>> \o order_versions_ascending(rows \ {first})

\* .order("version_number", desc=True)
RECURSIVE order_versions(_)
order_versions(rows) ==
    IF rows = {} THEN <<>>
    ELSE LET first == CHOOSE v \in rows :
                          \A w \in rows : v.version_number >= w.version_number
         IN <<first>> \o order_versions(rows \ {first})

\* GET /api/policies/{policy_id}/versions. Each entry carries its version
\* row beside the response dict built from it.
get_policy_versions(tok, policy_id) ==
    \/ Denied("get_policy_versions", tok, AdminRoles)
    \/ /\ Passes(tok, AdminRoles)
       /\ IF PoliciesById(policy_id) = {}
          THEN last' = Response("get_policy_versions", 404, tok, policy_id, None,
                                None, <<>>)
          ELSE LET policy_data_row == FirstRow(PoliciesById(policy_id))
                   policy_uuid == policy_data_row.id
                   versions_response == order_versions(VersionsOf(policy_uuid))
                   versions ==
                       [i \in DOMAIN versions_response |->
                           [convert_version_from_db(versions_response[i], policy_uuid)
                               EXCEPT !.policy_id = policy_data_row.policy_id]]
               IN last' = [versions |-> versions_response]
                          @@ Response("get_policy_versions", 200, tok, policy_id,
                                      policy_uuid, None, versions)
       /\ users' = users_after_auth(tok)
       /\ UNCHANGED <<inflight, auth_users, policies, policy_versions, bylaws, suggestions,
                      policy_reviews, now, nextId>>

\* ------------------------------------------------------------ bylaw reads

\* str(bylaw_number)
NumChars(n) == CASE n = 1 -> <<"1">> [] n = 2 -> <<"2">> [] OTHER -> <<>>

\* .order("number")
RECURSIVE order_bylaws(_)
order_bylaws(rows) ==
    IF rows = {} THEN <<>>
    ELSE LET first == CHOOSE r \in rows : \A q \in rows : r.number <= q.number
         IN <<first>> \o order_bylaws(rows \ {first})

\* The search predicate of get_bylaws and get_approved_bylaws.
bylaw_search(b, search) ==
    LET search_lower == lower(Chars(search))
    IN \/ Contains(search_lower, lower(Chars(Get(b, "bylaw_title", ""))))
       \/ Contains(search_lower, lower(NumChars(Get(b, "bylaw_number", 0))))
       \/ Contains(search_lower, lower(Chars(Get(b, "bylaw_content", ""))))

\* GET /api/bylaws: filter, order and page in the store, search on the page.
bylaws_page(query) ==
    LET matching == {r \in bylaws : query.status # None => r.status = query.status}
        response == range(order_bylaws(matching), query.offset, query.limit)
        converted == [i \in DOMAIN response |-> convert_bylaw_from_db(response[i])]
    IN IF query.search # None
       THEN SelectSeq(converted, LAMBDA b : bylaw_search(b, query.search))
       ELSE converted

get_bylaws(tok, query) ==
    \/ Denied("get_bylaws", tok, SuggestionManagerRoles)
    \/ /\ Passes(tok, SuggestionManagerRoles)
       /\ last' = ReadResponse("get_bylaws", 200, tok, query, bylaws_page(query))
       /\ users' = users_after_auth(tok)
       /\ UNCHANGED <<inflight, auth_users, policies, policy_versions, bylaws, suggestions,
                      policy_reviews, now, nextId>>

\* GET /api/bylaws/approved: no credentials are read.
approved_bylaws(query) ==
    LET matching == {r \in bylaws : r.status = "approved"}
        converted == [i \in DOMAIN order_bylaws(matching) |->
                         convert_bylaw_from_db(order_bylaws(matching)[i])]
    IN IF query.search # None
       THEN SelectSeq(converted, LAMBDA b : bylaw_search(b, query.search))
       ELSE converted

get_approved_bylaws(query) ==
    /\ last' = ReadResponse("get_approved_bylaws", 200, NoToken, query,
                            approved_bylaws(query))
    /\ UNCHANGED <<inflight, users, auth_users, policies, policy_versions, bylaws,
                   suggestions, policy_reviews, now, nextId>>

\* .eq("id", bylaw_id).eq("status", "approved")
approved_bylaw_rows(bylaw_id) == {r \in BylawsById(bylaw_id) : r.status = "approved"}

\* GET /api/bylaws/{bylaw_id}: no credentials are read.
get_approved_bylaw_by_id(bylaw_id) ==
    /\ IF approved_bylaw_rows(bylaw_id) = {}
       THEN last' = Response("get_approved_bylaw_by_id", 404, NoToken, None,
                             bylaw_id, None, <<>>)
       ELSE last' = Response("get_approved_bylaw_by_id", 200, NoToken, None,
                             bylaw_id, None,
                             <<convert_bylaw_from_db(
                                   FirstRow(approved_bylaw_rows(bylaw_id)))>>)
    /\ UNCHANGED <<inflight, users, auth_users, policies, policy_versions, bylaws,
                   suggestions, policy_reviews, now, nextId>>

\* ------------------------------------------------------ suggestion reads

\* .order("created_at", desc=True)
RECURSIVE order_suggestions(_)
order_suggestions(rows) ==
    IF rows = {} THEN <<>>
    ELSE LET first == CHOOSE r \in rows : \A q \in rows : r.created_at >= q.created_at
         IN <<first>> \o order_suggestions(rows \ {first})

\* convert_suggestion_from_db(row, policy_info, bylaw_info) with the display
\* fields looked up from the referenced rows that still exist.
suggestion_with_info(row) ==
    LET policy_rows == {p \in policies : p.id = row.policy_id}
        bylaw_rows == {b \in bylaws : b.id = row.bylaw_id}
        policy_known == row.policy_id # None /\ policy_rows # {}
        bylaw_known == row.bylaw_id # None /\ bylaw_rows # {}
    IN [convert_suggestion_from_db(row) EXCEPT
           !.policy_id_text = IF policy_known THEN FirstRow(policy_rows).policy_id
                              ELSE None,
           !.policy_name = IF policy_known THEN FirstRow(policy_rows).name ELSE None,
           !.bylaw_title = IF bylaw_known THEN FirstRow(bylaw_rows).title ELSE None]

\* GET /api/suggestions: a policy code that resolves to nothing gives the
\* empty list.
suggestions_page(query) ==
    IF query.policy_id # None /\ PoliciesById(query.policy_id) = {} THEN <<>>
    ELSE LET policy_uuid == IF query.policy_id = None THEN None
                            ELSE FirstRow(PoliciesById(query.policy_id)).id
             matching == {r \in suggestions :
                             /\ query.status # None => r.status = query.status
                             /\ query.policy_id # None => r.policy_id = policy_uuid
                             /\ query.bylaw_id # None => r.bylaw_id = query.bylaw_id}
             response == range(order_suggestions(matching), query.offset, query.limit)
         IN [i \in DOMAIN response |-> suggestion_with_info(response[i])]

get_suggestions(tok, query) ==
    \/ Denied("get_suggestions", tok, SuggestionManagerRoles)
    \/ /\ Passes(tok, SuggestionManagerRoles)
       /\ last' = ReadResponse("get_suggestions", 200, tok, query,
                               suggestions_page(query))
       /\ users' = users_after_auth(tok)
       /\ UNCHANGED <<inflight, auth_users, policies, policy_versions, bylaws, suggestions,
                      policy_reviews, now, nextId>>

\* ------------------------------------------------------- user management

\* The account db.auth.sign_up creates for a registration.
NewUserId == "u4"

\* POST /api/auth/register. sign_up fails when the address already has an
\* account. Whether or not the provider returns a session, the answer has
\* status 200 (an HTTPException with status 200 when it does not).
register(tok, register_data) ==
    \/ Denied("register", tok, AdminRoles)
    \/ /\ Passes(tok, AdminRoles)
       /\ IF \E u \in auth_users : Email(u) = register_data.email
          THEN /\ last' = Response("register", 400, tok, None, None, None, <<>>)
               /\ UNCHANGED <<users, auth_users>>
          ELSE LET row == [id |-> NewUserId, email |-> register_data.email,
                           role |-> "policy_working_group"]
               IN /\ auth_users' = auth_users \cup {NewUserId}
                  /\ users' = users \cup {row}
                  /\ last' = Response("register", 200, tok, NewUserId, None, None,
                                      <<row>>)
       /\ UNCHANGED <<inflight, policies, policy_versions, bylaws, suggestions,
                      policy_reviews, now, nextId>>

\* Every role: the dependency is get_current_user alone.
AnyRole == UserRole

\* GET /api/auth/me: the caller's users row, which get_current_user has
\* provisioned if it was missing.
get_current_user_info(tok) ==
    \/ Denied("get_current_user_info", tok, AnyRole)
    \/ /\ Passes(tok, AnyRole)
       /\ users' = users_after_auth(tok)
       /\ LET current_user == get_current_user(tok)
              user_data == {u \in users_after_auth(tok) : u.id = current_user.id}
          IN last' = Response("get_current_user_info", 200, tok, current_user.id,
                              None, None,
                              <<[id |-> FirstRow(user_data).id,
                                 email |-> FirstRow(user_data).email,
                                 role |-> FirstRow(user_data).role,
                                 identity |-> current_user]>>)
       /\ UNCHANGED <<inflight, auth_users, policies, policy_versions, bylaws, suggestions,
                      policy_reviews, now, nextId>>

\* The rows of a table as a list, in the order the store returns them.
RECURSIVE Listed_rows(_)
Listed_rows(rows) ==
    IF rows = {} THEN <<>>
    ELSE LET first == CHOOSE r \in rows : TRUE
         IN <<first>> \o Listed_rows(rows \ {first})

\* GET /api/auth/users. The role test is the handler's own.
get_all_users(tok) ==
    \/ Denied("get_all_users", tok, AdminRoles)
    \/ /\ Passes(tok, AdminRoles)
       /\ last' = Response("get_all_users", 200, tok, None, None, None,
                           Listed_rows(users))
       /\ UNCHANGED <<inflight, users, auth_users, policies, policy_versions, bylaws,
                      suggestions, policy_reviews, now, nextId>>

\* PUT /api/auth/users/{user_id}/role. The role test is the handler's own;
\* the caller's own row is not excluded.
update_user_role(tok, user_id, role_data) ==
    \/ Denied("update_user_role", tok, AdminRoles)
    \/ /\ Passes(tok, AdminRoles)
       /\ IF UserRows(user_id) = {}
          THEN /\ last' = Response("update_user_role", 404, tok, user_id, None, None,
                                   <<>>)
               /\ UNCHANGED users
          ELSE /\ users' = {IF u.id = user_id THEN [u EXCEPT !.role = role_data.role]
                            ELSE u : u \in users}
               /\ last' = Response("update_user_role", 200, tok, user_id, None,
                                   role_data.role,
                                   <<[FirstRow(UserRows(user_id))
                                         EXCEPT !.role = role_data.role]>>)
       /\ UNCHANGED <<inflight, auth_users, policies, policy_versions, bylaws, suggestions,
                      policy_reviews, now, nextId>>

\* POST /api/auth/login for the account user_id; signed_in: the provider
\* accepts the password and returns a session. A users row found by e-mail
\* only is re-keyed to the account; an account without any row gets a public
\* one and is turned away.
login(user_id, signed_in) ==
    LET by_email == IF Email(user_id) = None THEN {}
                    ELSE {u \in users : u.email = Email(user_id)}
        rekeyed == {IF u \in by_email THEN [u EXCEPT !.id = user_id] ELSE u :
                       u \in users}
        Answer(code, body) ==
            last' = Response("login", code, NoToken, user_id, None, None, body)
    IN /\ IF ~signed_in \/ user_id \notin auth_users
          THEN /\ Answer(401, <<>>)
               /\ UNCHANGED users
          ELSE IF UserRows(user_id) = {} /\ by_email = {}
          THEN /\ users' = users \cup {[id |-> user_id, email |-> Email(user_id),
                                        role |-> "public"]}
               /\ Answer(403, <<>>)
          ELSE /\ users' = IF UserRows(user_id) # {} THEN users ELSE rekeyed
               /\ LET user_data == {u \in users' : u.id = user_id}
                      role == FirstRow(user_data).role
                  IN IF role \notin {"admin", "policy_working_group"}
                     THEN Answer(403, <<>>)
                     ELSE Answer(200, <<[id |-> user_id, email |-> Email(user_id),
                                         role |-> role]>>)
       /\ UNCHANGED <<inflight, auth_users, policies, policy_versions, bylaws, suggestions,
                      policy_reviews, now, nextId>>

\* --------------------------------------- handlers, one storage call a step

\* A handler has no await between its storage calls: one server process runs
\* it to completion, and the calls of two requests interleave when the
\* service runs as several processes or replicas on the one store.
Workers == {"w1", "w2"}

Idle == [op |-> "idle"]

\* The request a process is handling leaves it.
Done(w) == inflight' = [inflight EXCEPT ![w] = Idle]

\* update_policy up to "existing = ...select("*").eq("policy_id", ...)": the
\* guards, the row read and the has_changes decision taken from it.
update_policy_read(w, tok, policy_id, policy_update) ==
    /\ inflight[w] = Idle
    /\ \/ Denied("update_policy", tok, SuggestionManagerRoles)
       \/ /\ Passes(tok, SuggestionManagerRoles)
          /\ IF PoliciesById(policy_id) = {}
             THEN /\ last' = Response("update_policy", 404, tok, policy_id, None, None,
                                      <<>>)
                  /\ UNCHANGED inflight
             ELSE LET existing_policy == FirstRow(PoliciesById(policy_id))
                  IN /\ inflight' =
                          [inflight EXCEPT ![w] =
                              [op |-> "update_policy",
                               pc |-> IF has_changes(policy_update, existing_policy)
                                      THEN "versions" ELSE "update",
                               tok |-> tok,
                               policy_id |-> policy_id,
                               policy_update |-> policy_update,
                               existing_policy |-> existing_policy,
                               next_version |-> 0]]
                     /\ UNCHANGED last
          /\ users' = users_after_auth(tok)
          /\ UNCHANGED <<auth_users, policies, policy_versions, bylaws, suggestions,
                         policy_reviews, now, nextId>>

\* update_policy: "versions_response = ...order("version_number",
\* desc=True).limit(1)".
update_policy_versions(w) ==
    /\ inflight[w].op = "update_policy"
    /\ inflight[w].pc = "versions"
    /\ inflight' = [inflight EXCEPT
                       ![w].next_version = next_version(inflight[w].existing_policy.id),
                       ![w].pc = "insert"]
    /\ UNCHANGED <<users, auth_users, policies, policy_versions, bylaws, suggestions,
                   policy_reviews, now, nextId, last>>

\* update_policy: "Insert version history".  The store performs the insert
\* (ok) or raises, which the handler turns into a 500.
update_policy_insert(w, ok) ==
    LET request == inflight[w]
    IN /\ request.op = "update_policy"
       /\ request.pc = "insert"
       /\ IF ok
          THEN /\ policy_versions' = policy_versions \cup
                      {[id |-> Uuid(nextId)] @@
                       [version_data(request.existing_policy,
                                     get_current_user(request.tok))
                           EXCEPT !.version_number = request.next_version]}
               /\ nextId' = nextId + 1
               /\ inflight' = [inflight EXCEPT ![w].pc = "update"]
               /\ UNCHANGED last
          ELSE /\ last' = Response("update_policy", 500, request.tok, request.policy_id,
                                   request.existing_policy.id,
                                   request.policy_update.status, <<>>)
               /\ Done(w)
               /\ UNCHANGED <<policy_versions, nextId>>
       /\ UNCHANGED <<users, auth_users, policies, bylaws, suggestions, policy_reviews,
                      now>>

\* A variant of update_policy_update: the two writes are one transaction,
\* a failed main-row write takes the version row back.
update_policy_update_in_transaction(w, ok) ==
    LET request == inflight[w]
        updated(r) == apply_policy_update(r, update_data(request.policy_update),
                                          get_current_user(request.tok))
        rows == PoliciesById(request.policy_id)
    IN /\ request.op = "update_policy"
       /\ request.pc = "update"
       /\ now < MaxClock
       /\ now' = now + 1
       /\ IF ok /\ rows # {}
          THEN /\ policies' = {IF r.policy_id = request.policy_id THEN updated(r)
                               ELSE r : r \in policies}
               /\ last' = Response("update_policy", 200, request.tok, request.policy_id,
                                   request.existing_policy.id,
                                   request.policy_update.status,
                                   <<convert_policy_from_db(updated(FirstRow(rows)))>>)
               /\ UNCHANGED policy_versions
          ELSE /\ last' = Response("update_policy", 500, request.tok, request.policy_id,
                                   request.existing_policy.id,
                                   request.policy_update.status, <<>>)
               /\ policy_versions' =
                      {v \in policy_versions :
                          ~(/\ v.policy_id = request.existing_policy.id
                            /\ v.version_number = request.next_version)}
               /\ UNCHANGED policies
       /\ Done(w)
       /\ UNCHANGED <<users, auth_users, bylaws, suggestions, policy_reviews, nextId>>

\* update_policy: "response = ...update(update_data).eq("policy_id", ...)".
\* The store performs the update (ok) or raises; an update that matched no
\* row returns no data.  Either failure is a 500.  The clock is read before
\* the call, whatever its outcome.
update_policy_update(w, ok) ==
    LET request == inflight[w]
        updated(r) == apply_policy_update(r, update_data(request.policy_update),
                                          get_current_user(request.tok))
        rows == PoliciesById(request.policy_id)
    IN /\ request.op = "update_policy"
       /\ request.pc = "update"
       /\ now < MaxClock
       /\ now' = now + 1
       /\ IF ok /\ rows # {}
          THEN /\ policies' = {IF r.policy_id = request.policy_id THEN updated(r)
                               ELSE r : r \in policies}
               /\ last' = Response("update_policy", 200, request.tok, request.policy_id,
                                   request.existing_policy.id,
                                   request.policy_update.status,
                                   <<convert_policy_from_db(updated(FirstRow(rows)))>>)
          ELSE /\ last' = Response("update_policy", 500, request.tok, request.policy_id,
                                   request.existing_policy.id,
                                   request.policy_update.status, <<>>)
               /\ UNCHANGED policies
       /\ Done(w)
       /\ UNCHANGED <<users, auth_users, policy_versions, bylaws, suggestions,
                      policy_reviews, nextId>>

\* approve_policy up to "Check if already approved".
approve_policy_read(w, tok, policy_id) ==
    /\ inflight[w] = Idle
    /\ \/ Denied("approve_policy", tok, AdminRoles)
       \/ /\ Passes(tok, AdminRoles)
          /\ IF PoliciesById(policy_id) = {}
             THEN /\ last' = Response("approve_policy", 404, tok, policy_id, None, None,
                                      <<>>)
                  /\ UNCHANGED inflight
             ELSE LET existing_policy == FirstRow(PoliciesById(policy_id))
                  IN IF already_approved(existing_policy)
                     THEN /\ last' = Response("approve_policy", 400, tok, policy_id,
                                              existing_policy.id, None, <<>>)
                          /\ UNCHANGED inflight
                     ELSE /\ inflight' =
                               [inflight EXCEPT ![w] =
                                   [op |-> "approve_policy", pc |-> "update",
                                    tok |-> tok, policy_id |-> policy_id,
                                    existing_policy |-> existing_policy]]
                          /\ UNCHANGED last
          /\ users' = users_after_auth(tok)
          /\ UNCHANGED <<auth_users, policies, policy_versions, bylaws, suggestions,
                         policy_reviews, now, nextId>>

\* approve_policy: "Update status to approved", on the row as it is now.
approve_policy_update(w) ==
    LET request == inflight[w]
        approved(r) == approve_data(r, get_current_user(request.tok))
        rows == PoliciesById(request.policy_id)
    IN /\ request.op = "approve_policy"
       /\ request.pc = "update"
       /\ now < MaxClock
       /\ now' = now + 1
       /\ IF rows # {}
          THEN /\ policies' = {IF r.policy_id = request.policy_id THEN approved(r)
                               ELSE r : r \in policies}
               /\ last' = Response("approve_policy", 200, request.tok, request.policy_id,
                                   request.existing_policy.id, None,
                                   <<convert_policy_from_db(approved(FirstRow(rows)))>>)
          ELSE /\ last' = Response("approve_policy", 500, request.tok, request.policy_id,
                                   request.existing_policy.id, None, <<>>)
               /\ UNCHANGED policies
       /\ Done(w)
       /\ UNCHANGED <<users, auth_users, policy_versions, bylaws, suggestions,
                      policy_reviews, nextId>>

\* submit_policy_review up to "Check if review already exists for this user
\* and policy".
submit_policy_review_read(w, tok, policy_id, review) ==
    LET current_user == get_current_user(tok)
        user_email == IF current_user.email # None THEN current_user.email
                      ELSE LET user_response ==
                                   {u \in users_after_auth(tok) : u.id = tok}
                           IN IF user_response # {}
                              THEN FirstRow(user_response).email
                              ELSE None
        Fails(code) ==
            /\ last' = Response("submit_policy_review", code, tok, policy_id, None,
                                None, <<>>)
            /\ UNCHANGED inflight
    IN /\ inflight[w] = Idle
       /\ IF ~HasIdentity(tok) THEN Fails(401)
          ELSE IF user_email = None THEN Fails(400)
          ELSE IF PoliciesById(policy_id) = {} THEN Fails(404)
          ELSE /\ inflight' =
                    [inflight EXCEPT ![w] =
                        [op |-> "submit_policy_review", pc |-> "write",
                         tok |-> tok, policy_id |-> policy_id,
                         user_email |-> user_email, review |-> review,
                         existing_review |->
                             existing_review(policy_id, user_email) # <<>>]]
               /\ UNCHANGED last
       /\ users' = IF HasIdentity(tok) THEN users_after_auth(tok) ELSE users
       /\ UNCHANGED <<auth_users, policies, policy_versions, bylaws, suggestions,
                      policy_reviews, now, nextId>>

\* submit_policy_review: "Update existing review" or "Create new review", as
\* the earlier read decided.
submit_policy_review_write(w) ==
    LET request == inflight[w]
        data == review_data(request.policy_id, request.user_email, request.review)
    IN /\ request.op = "submit_policy_review"
       /\ request.pc = "write"
       /\ now < MaxClock
       /\ now' = now + 1
       /\ IF request.existing_review
          THEN /\ policy_reviews' =
                     [i \in 1..Len(policy_reviews) |->
                         IF /\ policy_reviews[i].policy_id = request.policy_id
                            /\ policy_reviews[i].user_email = request.user_email
                         THEN data @@ policy_reviews[i]
                         ELSE policy_reviews[i]]
               /\ UNCHANGED nextId
          ELSE /\ policy_reviews' =
                     Append(policy_reviews,
                            [id |-> Uuid(nextId), created_at |-> now] @@ data)
               /\ nextId' = nextId + 1
       /\ last' = Response("submit_policy_review", 201, request.tok, request.policy_id,
                           None, request.review.review_status, <<>>)
       /\ Done(w)
       /\ UNCHANGED <<users, auth_users, policies, policy_versions, bylaws, suggestions>>

\* ----------------------------------------------------------- request inputs

\* The guards reject a request whatever its path and body are: one request
\* stands for all of them.
Inputs(tok, allowed_roles, S) ==
    IF Passes(tok, allowed_roles) THEN S ELSE {CHOOSE x \in S : TRUE}

\* Request bodies of POST /api/policies: each policy code, with and without a
\* caller-supplied "approved".
PolicyCreate ==
    {[policy_id |-> p, policy_name |-> "Travel", section |-> "2",
      policy_content |-> "...", status |-> s] : p \in PolicyIds, s \in PolicyStatus}

NoFields == [policy_name |-> None, section |-> None, policy_content |-> None,
             status |-> None]

\* Request bodies of PUT /api/policies/{policy_id}: the empty body, a status
\* alone, the name a policy is created with, a new content, and all fields
\* at once.
PolicyUpdate ==
    {NoFields, [NoFields EXCEPT !.status = "approved"],
     [NoFields EXCEPT !.policy_name = "Travel"],
     [NoFields EXCEPT !.policy_content = "new text"],
     [policy_name |-> "Lodging", section |-> "1", policy_content |-> "new text",
      status |-> "approved"]}

\* Request bodies of POST /api/bylaws.
BylawCreate ==
    {[bylaw_number |-> n, bylaw_title |-> "Travel", bylaw_content |-> "...",
      status |-> s] : n \in BylawNumbers, s \in PolicyStatus}

NoBylawFields == [bylaw_number |-> 0, bylaw_title |-> None, bylaw_content |-> None,
                  status |-> None]

\* Request bodies of PUT /api/bylaws/{bylaw_id}.
BylawUpdate ==
    {NoBylawFields, [NoBylawFields EXCEPT !.status = "approved"]}
    \cup {[NoBylawFields EXCEPT !.bylaw_title = n] : n \in Names}
    \cup {[NoBylawFields EXCEPT !.bylaw_content = c] : c \in Contents}
    \cup {[NoBylawFields EXCEPT !.bylaw_number = n] : n \in BylawNumbers}

\* Path identifiers of the bylaw endpoints: the key of every stored bylaw,
\* and a key that resolves to no row.
BylawIds == {r.id : r \in bylaws} \cup {UnknownId}

\* ----------------------------------------------------------- specification

Init ==
    /\ users = {[id |-> "u1", email |-> Email("u1"), role |-> "admin"],
                [id |-> "u2", email |-> Email("u2"), role |-> "policy_working_group"],
                [id |-> "u3", email |-> Email("u3"), role |-> "public"]}
    /\ auth_users = UserIds
    /\ policies = {}
    /\ policy_versions = {}
    /\ bylaws = {}
    /\ suggestions = {}
    /\ policy_reviews = <<>>
    /\ now = 0
    /\ nextId = 1
    /\ last = Response("init", 0, NoToken, None, None, None, <<>>)
    /\ inflight = [w \in Workers |-> Idle]

PolicyRequests ==
    \E tok \in Tokens :
        \/ \E policy \in PolicyCreate :
               /\ policy \in Inputs(tok, SuggestionManagerRoles, PolicyCreate)
               /\ create_policy(tok, policy)
        \/ \E policy_id \in PolicyIds, policy_update \in PolicyUpdate :
               /\ policy_id \in Inputs(tok, SuggestionManagerRoles, PolicyIds)
               /\ policy_update \in Inputs(tok, SuggestionManagerRoles, PolicyUpdate)
               /\ update_policy(tok, policy_id, policy_update)
        \/ \E policy_id \in PolicyIds :
               /\ policy_id \in Inputs(tok, AdminRoles, PolicyIds)
               /\ delete_policy(tok, policy_id)
        \/ \E policy_id \in PolicyIds :
               /\ policy_id \in Inputs(tok, AdminRoles, PolicyIds)
               /\ approve_policy(tok, policy_id)

BylawRequests ==
    \E tok \in Tokens :
        \/ \E bylaw \in BylawCreate :
               /\ bylaw \in Inputs(tok, SuggestionManagerRoles, BylawCreate)
               /\ create_bylaw(tok, bylaw)
        \/ \E bylaw_id \in BylawIds, bylaw_update \in BylawUpdate :
               /\ bylaw_id \in Inputs(tok, SuggestionManagerRoles, BylawIds)
               /\ bylaw_update \in Inputs(tok, SuggestionManagerRoles, BylawUpdate)
               /\ update_bylaw(tok, bylaw_id, bylaw_update)
        \/ \E bylaw_id \in BylawIds :
               /\ bylaw_id \in Inputs(tok, AdminRoles, BylawIds)
               /\ delete_bylaw(tok, bylaw_id)
        \/ \E bylaw_id \in BylawIds :
               /\ bylaw_id \in Inputs(tok, AdminRoles, BylawIds)
               /\ approve_bylaw(tok, bylaw_id)

Next ==
    \/ PolicyRequests

Spec == Init /\ [][Next]_vars

SpecBylaw == Init /\ [][BylawRequests]_vars

\* Both content types in one run, on one policy code and one bylaw number:
\* bodies with and without a caller-supplied status, with and without a
\* changed field.
ContentPolicyCreate == {policy \in PolicyCreate : policy.policy_id = "2.3.1"}
ContentPolicyUpdate ==
    {NoFields, [NoFields EXCEPT !.status = "approved"],
     [NoFields EXCEPT !.policy_content = "new text"]}
ContentBylawCreate == {bylaw \in BylawCreate : bylaw.bylaw_number = 1}
ContentBylawUpdate ==
    {NoBylawFields, [NoBylawFields EXCEPT !.status = "approved"],
     [NoBylawFields EXCEPT !.bylaw_content = "new text"]}

ContentRequests ==
    \E tok \in Tokens :
        \/ \E policy \in ContentPolicyCreate :
               /\ policy \in Inputs(tok, SuggestionManagerRoles, ContentPolicyCreate)
               /\ create_policy(tok, policy)
        \/ \E policy_id \in PolicyIds, policy_update \in ContentPolicyUpdate :
               /\ policy_id \in Inputs(tok, SuggestionManagerRoles, PolicyIds)
               /\ policy_update \in Inputs(tok, SuggestionManagerRoles, ContentPolicyUpdate)
               /\ update_policy(tok, policy_id, policy_update)
        \/ \E policy_id \in PolicyIds :
               /\ policy_id \in Inputs(tok, AdminRoles, PolicyIds)
               /\ delete_policy(tok, policy_id)
        \/ \E policy_id \in PolicyIds :
               /\ policy_id \in Inputs(tok, AdminRoles, PolicyIds)
               /\ approve_policy(tok, policy_id)
        \/ \E bylaw \in ContentBylawCreate :
               /\ bylaw \in Inputs(tok, SuggestionManagerRoles, ContentBylawCreate)
               /\ create_bylaw(tok, bylaw)
        \/ \E bylaw_id \in BylawIds, bylaw_update \in ContentBylawUpdate :
               /\ bylaw_id \in Inputs(tok, SuggestionManagerRoles, BylawIds)
               /\ bylaw_update \in Inputs(tok, SuggestionManagerRoles, ContentBylawUpdate)
               /\ update_bylaw(tok, bylaw_id, bylaw_update)
        \/ \E bylaw_id \in BylawIds :
               /\ bylaw_id \in Inputs(tok, AdminRoles, BylawIds)
               /\ delete_bylaw(tok, bylaw_id)
        \/ \E bylaw_id \in BylawIds :
               /\ bylaw_id \in Inputs(tok, AdminRoles, BylawIds)
               /\ approve_bylaw(tok, bylaw_id)

SpecContent == Init /\ [][ContentRequests]_vars

\* Suggestions: one policy and one bylaw to attach them to.
DraftPolicyCreate == {policy \in ContentPolicyCreate : policy.status = "draft"}
DraftBylawCreate == {bylaw \in ContentBylawCreate : bylaw.status = "draft"}

\* Request bodies of POST /api/suggestions: each target identifier absent,
\* resolving, or resolving to nothing; the status left at its default or
\* supplied.
SuggestionCreate ==
    {[policy_id |-> p, bylaw_id |-> b, suggestion |-> "typo", status |-> s] :
        p \in {None, "2.3.1"}, b \in {None} \cup BylawIds,
        s \in {"pending", "implemented"}}

SuggestionIds == {r.id : r \in suggestions} \cup {UnknownId}

SuggestionRequests ==
    \/ \E suggestion \in SuggestionCreate : create_suggestion(suggestion)
    \/ \E tok \in Tokens :
        \/ \E policy \in DraftPolicyCreate :
               /\ policy \in Inputs(tok, SuggestionManagerRoles, DraftPolicyCreate)
               /\ create_policy(tok, policy)
        \/ \E bylaw \in DraftBylawCreate :
               /\ bylaw \in Inputs(tok, SuggestionManagerRoles, DraftBylawCreate)
               /\ create_bylaw(tok, bylaw)
        \/ \E suggestion_id \in SuggestionIds :
               /\ suggestion_id \in Inputs(tok, SuggestionManagerRoles, SuggestionIds)
               /\ delete_suggestion(tok, suggestion_id)

SpecSuggestion == Init /\ [][SuggestionRequests]_vars

\* The four delete endpoints, with the requests that create what they
\* delete.
\* Path identifiers of DELETE /api/auth/users/{user_id}: the administrator's
\* own account, another account, and an identifier no account has.
UnknownUser == "u9"
UserPathIds == {"u1", "u3", UnknownUser}

PendingSuggestionCreate ==
    {suggestion \in SuggestionCreate : suggestion.status = "pending"}

DeleteRequests ==
    \/ \E suggestion \in PendingSuggestionCreate : create_suggestion(suggestion)
    \/ \E tok \in Tokens :
        \/ \E policy \in DraftPolicyCreate :
               /\ policy \in Inputs(tok, SuggestionManagerRoles, DraftPolicyCreate)
               /\ create_policy(tok, policy)
        \/ \E bylaw \in DraftBylawCreate :
               /\ bylaw \in Inputs(tok, SuggestionManagerRoles, DraftBylawCreate)
               /\ create_bylaw(tok, bylaw)
        \/ \E suggestion_id \in SuggestionIds :
               /\ suggestion_id \in Inputs(tok, SuggestionManagerRoles, SuggestionIds)
               /\ delete_suggestion(tok, suggestion_id)
        \/ \E policy_id \in PolicyIds :
               /\ policy_id \in Inputs(tok, AdminRoles, PolicyIds)
               /\ delete_policy(tok, policy_id)
        \/ \E bylaw_id \in BylawIds :
               /\ bylaw_id \in Inputs(tok, AdminRoles, BylawIds)
               /\ delete_bylaw(tok, bylaw_id)
        \/ \E user_id \in UserPathIds :
               /\ user_id \in Inputs(tok, AdminRoles, UserPathIds)
               /\ delete_user(tok, user_id)

SpecDelete == Init /\ [][DeleteRequests]_vars

\* Reviews: both policy codes, every reviewer and both verdicts.
ReviewPolicyCreate == {policy \in PolicyCreate : policy.status = "draft"}
PolicyReviewCreate == {[review_status |-> s] : s \in ReviewStatus}

ReviewRequests ==
    \E tok \in Tokens :
        \/ \E policy \in ReviewPolicyCreate :
               /\ policy \in Inputs(tok, SuggestionManagerRoles, ReviewPolicyCreate)
               /\ create_policy(tok, policy)
        \/ \E policy_id \in PolicyIds, review \in PolicyReviewCreate :
               submit_policy_review(tok, policy_id, review)
        \/ \E policy_id \in PolicyIds : get_policy_reviews(tok, policy_id)
        \/ reset_all_policy_reviews(tok)

SpecReview == Init /\ [][ReviewRequests]_vars

\* Every role-restricted endpoint in one run, each with one request body,
\* with the role changes and row deletions that make an account's role
\* record change or disappear.
AllRows == [status |-> None, section |-> None, search |-> None,
            policy_id |-> None, limit |-> 2, offset |-> 0]
AllBylawRows == [status |-> None, search |-> None, limit |-> 2, offset |-> 0]
AllSuggestionRows == [status |-> None, policy_id |-> None, bylaw_id |-> None,
                      limit |-> 2, offset |-> 0]
GuardPolicyUpdate == {[NoFields EXCEPT !.policy_content = "new text"]}
GuardBylawUpdate == {[NoBylawFields EXCEPT !.bylaw_content = "new text"]}
RegisterRequest == {[email |-> Email(NewUserId)]}
UpdateUserRoleRequest == {[role |-> r] : r \in {"admin", "public"}}
GuardDeleteIds == {"u3", UnknownUser}

GuardRequests ==
    \E tok \in Tokens :
        \/ \E policy \in DraftPolicyCreate :
               /\ policy \in Inputs(tok, SuggestionManagerRoles, DraftPolicyCreate)
               /\ create_policy(tok, policy)
        \/ \E policy_update \in GuardPolicyUpdate : update_policy(tok, "1.1.1", policy_update)
        \/ approve_policy(tok, "1.1.1")
        \/ delete_policy(tok, "1.1.1")
        \/ get_policy_versions(tok, "1.1.1")
        \/ get_policies(tok, AllRows)
        \/ reset_all_policy_reviews(tok)
        \/ \E bylaw \in DraftBylawCreate :
               /\ bylaw \in Inputs(tok, SuggestionManagerRoles, DraftBylawCreate)
               /\ create_bylaw(tok, bylaw)
        \/ \E bylaw_update \in GuardBylawUpdate : update_bylaw(tok, UnknownId, bylaw_update)
        \/ approve_bylaw(tok, UnknownId)
        \/ delete_bylaw(tok, UnknownId)
        \/ get_bylaws(tok, AllBylawRows)
        \/ get_suggestions(tok, AllSuggestionRows)
        \/ delete_suggestion(tok, UnknownId)
        \/ \E register_data \in RegisterRequest : register(tok, register_data)
        \/ get_all_users(tok)
        \/ get_current_user_info(tok)
        \/ \E role_data \in UpdateUserRoleRequest :
               /\ role_data \in Inputs(tok, AdminRoles, UpdateUserRoleRequest)
               /\ update_user_role(tok, "u3", role_data)
        \/ \E user_id \in GuardDeleteIds :
               /\ user_id \in Inputs(tok, AdminRoles, GuardDeleteIds)
               /\ delete_user(tok, user_id)

SpecGuard == Init /\ [][GuardRequests]_vars

\* The version history: two policies, edits that go back and forth between
\* two contents, deletion and re-creation, and the history read.
VersionPolicyCreate == {policy \in PolicyCreate : policy.status = "draft"}
VersionPolicyUpdate ==
    {NoFields, [NoFields EXCEPT !.policy_content = "new text"],
     [NoFields EXCEPT !.policy_content = "..."]}

VersionRequests ==
    \E tok \in Tokens :
        \/ \E policy \in VersionPolicyCreate :
               /\ policy \in Inputs(tok, SuggestionManagerRoles, VersionPolicyCreate)
               /\ create_policy(tok, policy)
        \/ \E policy_id \in PolicyIds, policy_update \in VersionPolicyUpdate :
               /\ policy_id \in Inputs(tok, SuggestionManagerRoles, PolicyIds)
               /\ policy_update \in Inputs(tok, SuggestionManagerRoles, VersionPolicyUpdate)
               /\ update_policy(tok, policy_id, policy_update)
        \/ \E policy_id \in PolicyIds :
               /\ policy_id \in Inputs(tok, AdminRoles, PolicyIds)
               /\ delete_policy(tok, policy_id)
        \/ \E policy_id \in PolicyIds :
               /\ policy_id \in Inputs(tok, AdminRoles, PolicyIds)
               /\ get_policy_versions(tok, policy_id)

SpecVersions == Init /\ [][VersionRequests]_vars

\* The public reads beside the requests that move a row between draft and
\* approved.
NoFilter == [section |-> None, search |-> None]
NoBylawFilter == [search |-> None]
ReadPolicyUpdate == {[NoFields EXCEPT !.policy_content = "new text"]}
ReadBylawUpdate == {[NoBylawFields EXCEPT !.bylaw_content = "new text"]}

ReadRequests ==
    \/ \E tok \in Tokens :
        \/ \E policy \in DraftPolicyCreate :
               /\ policy \in Inputs(tok, SuggestionManagerRoles, DraftPolicyCreate)
               /\ create_policy(tok, policy)
        \/ \E policy_update \in ReadPolicyUpdate : update_policy(tok, "2.3.1", policy_update)
        \/ approve_policy(tok, "2.3.1")
        \/ \E bylaw \in DraftBylawCreate :
               /\ bylaw \in Inputs(tok, SuggestionManagerRoles, DraftBylawCreate)
               /\ create_bylaw(tok, bylaw)
        \/ \E bylaw_id \in BylawIds, bylaw_update \in ReadBylawUpdate :
               /\ bylaw_id \in Inputs(tok, SuggestionManagerRoles, BylawIds)
               /\ update_bylaw(tok, bylaw_id, bylaw_update)
        \/ \E bylaw_id \in BylawIds :
               /\ bylaw_id \in Inputs(tok, AdminRoles, BylawIds)
               /\ approve_bylaw(tok, bylaw_id)
    \/ get_approved_policies(NoFilter)
    \/ \E policy_id \in PolicyIds : get_approved_policy_by_id(policy_id)
    \/ get_approved_bylaws(NoBylawFilter)
    \/ \E bylaw_id \in BylawIds : get_approved_bylaw_by_id(bylaw_id)

SpecRead == Init /\ [][ReadRequests]_vars

\* The list reads with their filters, search strings and pages, over two
\* policies and two bylaws.
ApprovedQuery ==
    {[section |-> sec, search |-> s] : sec \in {None, "2"}, s \in {None, "TRAV", "2.3"}}
ListQuery ==
    {[status |-> st, section |-> None, policy_id |-> None, search |-> s,
      offset |-> o, limit |-> l] :
        st \in {None}, s \in {None, "2.3"}, o \in {0, 1}, l \in {1, 2}}
BylawListQuery ==
    {[status |-> None, search |-> s, offset |-> o, limit |-> l] :
        s \in {None, "2"}, o \in {0}, l \in {1, 2}}
SearchBylawCreate == {bylaw \in BylawCreate : bylaw.status = "draft"}

SearchRequests ==
    \/ \E tok \in Tokens :
        \/ \E policy \in VersionPolicyCreate :
               /\ policy \in Inputs(tok, SuggestionManagerRoles, VersionPolicyCreate)
               /\ create_policy(tok, policy)
        \/ \E policy_id \in PolicyIds :
               /\ policy_id \in Inputs(tok, AdminRoles, PolicyIds)
               /\ approve_policy(tok, policy_id)
        \/ \E bylaw \in SearchBylawCreate :
               /\ bylaw \in Inputs(tok, SuggestionManagerRoles, SearchBylawCreate)
               /\ create_bylaw(tok, bylaw)
        \/ \E query \in ListQuery :
               /\ query \in Inputs(tok, SuggestionManagerRoles, ListQuery)
               /\ get_policies(tok, query)
        \/ \E query \in BylawListQuery :
               /\ query \in Inputs(tok, SuggestionManagerRoles, BylawListQuery)
               /\ get_bylaws(tok, query)
    \/ \E query \in ApprovedQuery : get_approved_policies(query)

SpecSearch == Init /\ [][SearchRequests]_vars

\* The users table: sign-in, registration, role changes, deletions, and one
\* restricted and one unrestricted authenticated request.
AccountIds == UserIds \cup {NewUserId}
AccountTokens == Tokens \cup {NewUserId}
UserRoleRequest == {[role |-> r] : r \in UserRole}
RolePathIds == AccountIds \cup {UnknownUser}

UserRequests ==
    \/ \E user_id \in AccountIds, signed_in \in BOOLEAN : login(user_id, signed_in)
    \/ \E tok \in AccountTokens :
        \/ \E register_data \in RegisterRequest : register(tok, register_data)
        \/ get_current_user_info(tok)
        \/ get_all_users(tok)
        \/ \E user_id \in RolePathIds, role_data \in UserRoleRequest :
               /\ user_id \in Inputs(tok, AdminRoles, RolePathIds)
               /\ role_data \in Inputs(tok, AdminRoles, UserRoleRequest)
               /\ update_user_role(tok, user_id, role_data)
        \/ \E user_id \in RolePathIds :
               /\ user_id \in Inputs(tok, AdminRoles, RolePathIds)
               /\ delete_user(tok, user_id)
        \/ get_suggestions(tok, AllSuggestionRows)
        \/ reset_all_policy_reviews(tok)

SpecUsers == Init /\ [][UserRequests]_vars

\* Requests whose storage calls interleave across two server processes, on
\* one policy code: an administrator and a public caller; updates with and
\* without a change; storage writes of update_policy that succeed or raise;
\* reviews by a caller with an e-mail, one without, and an anonymous one.
StepPolicyUpdate == {NoFields, [NoFields EXCEPT !.policy_content = "new text"]}

\* A request handled without interruption needs a free process.
SomeIdle == \E w \in Workers : inflight[w] = Idle

StepRequests ==
    \/ \E tok \in {"u1", "u3"}, policy \in DraftPolicyCreate :
           /\ SomeIdle
           /\ create_policy(tok, policy)
    \/ \E w \in Workers :
           \/ \E tok \in {"u1", "u3"}, policy_id \in {"2.3.1"},
                 policy_update \in StepPolicyUpdate :
                  /\ policy_update \in Inputs(tok, SuggestionManagerRoles,
                                              StepPolicyUpdate)
                  /\ update_policy_read(w, tok, policy_id, policy_update)
           \/ update_policy_versions(w)
           \/ \E ok \in BOOLEAN : update_policy_insert(w, ok)
           \/ \E ok \in BOOLEAN : update_policy_update(w, ok)
           \/ \E tok \in {"u1", "u3"}, policy_id \in {"2.3.1"} :
                  approve_policy_read(w, tok, policy_id)
           \/ approve_policy_update(w)
           \/ \E tok \in {"u1", "u3", NoToken}, policy_id \in {"2.3.1"},
                 review \in {[review_status |-> "confirm"]} :
                  submit_policy_review_read(w, tok, policy_id, review)
           \/ submit_policy_review_write(w)

SpecSteps == Init /\ [][StepRequests]_vars

\* A store that earlier requests have filled: policy 2.3.1 was created by the
\* administrator, edited once (version 1 holds the text it was created
\* with), suggested on by the public and reviewed by the administrator.
InitStored ==
    /\ users = {[id |-> "u1", email |-> Email("u1"), role |-> "admin"],
                [id |-> "u2", email |-> Email("u2"), role |-> "policy_working_group"],
                [id |-> "u3", email |-> Email("u3"), role |-> "public"]}
    /\ auth_users = UserIds
    /\ policies =
           {[id |-> Uuid(1), policy_id |-> "2.3.1", name |-> "Travel",
             section |-> "2", content |-> "new text", status |-> "draft",
             created_at |-> -4, updated_at |-> -3, created_by |-> "u1",
             updated_by |-> "u1"]}
    /\ policy_versions =
           {[id |-> Uuid(2), policy_id |-> Uuid(1), version_number |-> 1,
             name |-> "Travel", section |-> "2", content |-> "...",
             status |-> "draft", created_at |-> -3, created_by |-> "u1"]}
    /\ bylaws = {}
    /\ suggestions =
           {[id |-> Uuid(3), policy_id |-> Uuid(1), bylaw_id |-> None,
             suggestion |-> "typo", status |-> "pending", created_at |-> -2,
             updated_at |-> -2]}
    /\ policy_reviews =
           <<[id |-> Uuid(4), created_at |-> -1, policy_id |-> "2.3.1",
              user_email |-> Email("u1"), review_status |-> "confirm",
              updated_at |-> -1]>>
    /\ now = 0
    /\ nextId = 5
    /\ last = Response("init", 0, NoToken, None, None, None, <<>>)
    /\ inflight = [w \in Workers |-> Idle]

\* Deleting a policy and creating its code again, with the reads of its
\* history and reviews.
StoredPolicyUpdate == {NoFields, [NoFields EXCEPT !.policy_name = "Lodging"]}

StoredRequests ==
    \E tok \in {"u1", "u3"} :
        \/ \E policy \in DraftPolicyCreate : create_policy(tok, policy)
        \/ \E policy_id \in {"2.3.1"}, policy_update \in StoredPolicyUpdate :
               /\ policy_update \in Inputs(tok, SuggestionManagerRoles,
                                           StoredPolicyUpdate)
               /\ update_policy(tok, policy_id, policy_update)
        \/ \E policy_id \in {"2.3.1"} : delete_policy(tok, policy_id)
        \/ \E policy_id \in {"2.3.1"} : get_policy_versions(tok, policy_id)
        \/ \E policy_id \in {"2.3.1"} : get_policy_reviews(tok, policy_id)
        \/ \E policy_id \in {"2.3.1"}, review \in PolicyReviewCreate :
               submit_policy_review(tok, policy_id, review)

SpecStored == InitStored /\ [][StoredRequests]_vars

\* ================================================================= claims

PolicyRow(id) == CHOOSE r \in policies : r.id = id
BylawRow(id) == CHOOSE r \in bylaws : r.id = id

\* C1: every create_policy / create_bylaw request that succeeds persists a row
\* whose status is "draft", whatever status the request body supplied.
C1_CreateAlwaysDraft ==
    /\ (last.op = "create_policy" /\ last.code = 201) =>
           /\ \E r \in policies : r.id = last.id
           /\ \A r \in policies : r.id = last.id => r.status = "draft"
           /\ last.body[1].status = "draft"
    /\ (last.op = "create_bylaw" /\ last.code = 201) =>
           /\ \E r \in bylaws : r.id = last.id
           /\ \A r \in bylaws : r.id = last.id => r.status = "draft"
           /\ last.body[1].status = "draft"

\* A bylaw was just created from a body that asked for "approved", next to a
\* stored policy.
C1_Witness ==
    /\ last.op = "create_bylaw" /\ last.code = 201 /\ last.status = "approved"
    /\ policies # {}

\* C2: after every successful update_policy / update_bylaw the row's status
\* is "draft", whatever fields the body supplied and whatever the status was.
C2_UpdateAlwaysDraft ==
    /\ (last.op = "update_policy" /\ last.code = 200) =>
           /\ \E r \in policies : r.id = last.id
           /\ \A r \in policies : r.id = last.id => r.status = "draft"
           /\ last.body[1].status = "draft"
    /\ (last.op = "update_bylaw" /\ last.code = 200) =>
           /\ \E r \in bylaws : r.id = last.id
           /\ \A r \in bylaws : r.id = last.id => r.status = "draft"
           /\ last.body[1].status = "draft"

\* An approved policy (its snapshot says so) was just updated with a body
\* that supplies status "approved".
C2_Witness ==
    /\ last.op = "update_policy" /\ last.code = 200 /\ last.status = "approved"
    /\ \E v \in policy_versions :
           /\ v.policy_id = last.id
           /\ v.status = "approved"
           /\ v.created_at = now - 1

\* The policy row a successful update_policy step wrote, before and after.
UpdatedBefore == CHOOSE r \in policies : r.policy_id = last'.target
UpdatedAfter == CHOOSE r \in policies' : r.policy_id = last'.target

UpdateStep == last'.op = "update_policy" /\ last'.code = 200 /\ now' = now + 1

RowChanged(r, q) ==
    \/ r.name # q.name
    \/ r.section # q.section
    \/ r.content # q.content
    \/ r.status # q.status

\* C3: an update_policy that changes name, section, content or status of the
\* policy creates exactly one PolicyVersion for its surrogate key, numbered
\* prior maximum + 1 (1 without a prior version), holding the name, section,
\* content and status of the row before the update.
C3_ChangingUpdateSnapshots ==
    [][(UpdateStep /\ RowChanged(UpdatedBefore, UpdatedAfter)) =>
        \E v \in policy_versions' :
            /\ v \notin policy_versions
            /\ policy_versions' = policy_versions \cup {v}
            /\ v.policy_id = UpdatedBefore.id
            /\ LET prior == {w.version_number :
                                w \in {x \in policy_versions :
                                          x.policy_id = UpdatedBefore.id}}
               IN v.version_number = IF prior = {} THEN 1 ELSE Max(prior) + 1
            /\ v.name = UpdatedBefore.name
            /\ v.section = UpdatedBefore.section
            /\ v.content = UpdatedBefore.content
            /\ v.status = UpdatedBefore.status]_vars

\* A policy was updated twice with a change; the second snapshot (number 2)
\* was just written and differs from the live row.
C3_Witness ==
    /\ last.op = "update_policy" /\ last.code = 200
    /\ \E v \in policy_versions, r \in policies :
           /\ r.id = last.id
           /\ v.policy_id = r.id
           /\ v.version_number = 2
           /\ v.created_at = now - 1
           /\ v.name # r.name

\* C4: an update_policy that leaves name, section, content and status as they
\* were creates no PolicyVersion: the version rows are unchanged.
C4_NoOpUpdateNoSnapshot ==
    [][(UpdateStep /\ ~RowChanged(UpdatedBefore, UpdatedAfter)) =>
        policy_versions' = policy_versions]_vars

\* A draft policy without any version was just updated (a no-op update with
\* a field supplied): updated_at moved, no snapshot exists.
C4_Witness ==
    /\ last.op = "update_policy" /\ last.code = 200
    /\ \E r \in policies :
           /\ r.id = last.id
           /\ r.updated_at = now - 1
           /\ r.created_at < r.updated_at
           /\ r.updated_by # r.created_by
    /\ policy_versions = {}

\* The rows an approve request addressed, before and after the step.
ApprovedPolicyBefore == {r \in policies : r.policy_id = last'.target}
ApprovedPolicyAfter == {r \in policies' : r.policy_id = last'.target}
ApprovedBylawBefore == {r \in bylaws : r.id = last'.id}
ApprovedBylawAfter == {r \in bylaws' : r.id = last'.id}

\* C5: approve_policy / approve_bylaw on an approved entity fails with 400 and
\* leaves the row (updated_at and updated_by included) unchanged; on a draft
\* entity it succeeds and sets status to "approved"; on an identifier that
\* does not resolve it fails with 404.
C5_ApproveOutcomes ==
    [][/\ (last'.op = "approve_policy" /\ last'.code \notin {401, 403}) =>
            /\ ApprovedPolicyBefore = {} =>
                   last'.code = 404 /\ UNCHANGED tables
            /\ (\E r \in ApprovedPolicyBefore : r.status = "approved") =>
                   last'.code = 400 /\ UNCHANGED tables
            /\ (\E r \in ApprovedPolicyBefore : r.status = "draft") =>
                   /\ last'.code = 200
                   /\ ApprovedPolicyAfter # {}
                   /\ \A r \in ApprovedPolicyAfter : r.status = "approved"
       /\ (last'.op = "approve_bylaw" /\ last'.code \notin {401, 403}) =>
            /\ ApprovedBylawBefore = {} =>
                   last'.code = 404 /\ UNCHANGED tables
            /\ (\E r \in ApprovedBylawBefore : r.status = "approved") =>
                   last'.code = 400 /\ UNCHANGED tables
            /\ (\E r \in ApprovedBylawBefore : r.status = "draft") =>
                   /\ last'.code = 200
                   /\ ApprovedBylawAfter # {}
                   /\ \A r \in ApprovedBylawAfter : r.status = "approved"]_vars

\* An approve request on an approved policy was just refused, next to a
\* stored bylaw.
C5_Witness ==
    /\ last.op = "approve_policy" /\ last.code = 400
    /\ \E r \in policies : r.policy_id = last.target /\ r.status = "approved"
    /\ bylaws # {}

\* C6: a policy or bylaw row is approved after a step only if it was approved
\* before it, or the step is a successful approve of that row by an identity
\* whose role is admin.
C6_OnlyAdminApproveApproves ==
    [][/\ \A r \in policies' : r.status = "approved" =>
            \/ \E q \in policies : q.id = r.id /\ q.status = "approved"
            \/ /\ last'.op = "approve_policy" /\ last'.code = 200
               /\ last'.id = r.id
               /\ \E q \in policies : q.id = r.id /\ q.status = "draft"
               /\ \E u \in users : u.id = last'.tok /\ u.role = "admin"
       /\ \A r \in bylaws' : r.status = "approved" =>
            \/ \E q \in bylaws : q.id = r.id /\ q.status = "approved"
            \/ /\ last'.op = "approve_bylaw" /\ last'.code = 200
               /\ last'.id = r.id
               /\ \E q \in bylaws : q.id = r.id /\ q.status = "draft"
               /\ \E u \in users : u.id = last'.tok /\ u.role = "admin"]_vars

\* The admin just approved a bylaw that the working group had created and
\* edited.
C6_Witness ==
    /\ last.op = "approve_bylaw" /\ last.code = 200 /\ last.tok = "u1"
    /\ \E b \in bylaws :
           /\ b.id = last.id
           /\ b.status = "approved"
           /\ b.created_by = "u2"
           /\ b.created_at < b.updated_at - 1

\* C7: every stored suggestion references exactly one of policy / bylaw: no
\* row has both foreign keys set or both null, and no create_suggestion
\* request that supplied both identifiers, or neither, is answered 201.
C7_ExactlyOneTarget ==
    /\ \A s \in suggestions : (s.policy_id = None) # (s.bylaw_id = None)
    /\ (last.op = "create_suggestion" /\ (last.target = None) = (last.id = None)) =>
           last.code # 201

\* The reviews of one (policy code, e-mail) pair, and their statuses.
RowsFor(revs, p, e) ==
    {i \in 1..Len(revs) : revs[i].policy_id = p /\ revs[i].user_email = e}
StatusesFor(revs, p, e) == {revs[i].review_status : i \in RowsFor(revs, p, e)}
ReviewerEmails == {Email(u) : u \in UserIds} \ {None}

\* C8: across every request, each (policy_id, user_email) pair has at most one
\* review row; a successful submit_policy_review leaves the pair's row with
\* the submitted status and no other pair's status changed; and no other
\* request changes the status of a stored review.
C8_OneReviewPerPairLatestStatus ==
    [][/\ \A p \in PolicyIds, e \in ReviewerEmails :
              Cardinality(RowsFor(policy_reviews', p, e)) <= 1
       /\ IF last'.op = "submit_policy_review" /\ last'.code = 201
          THEN /\ StatusesFor(policy_reviews', last'.target, Email(last'.tok))
                     = {last'.status}
               /\ \A p \in PolicyIds, e \in ReviewerEmails :
                      <<p, e>> # <<last'.target, Email(last'.tok)>> =>
                          StatusesFor(policy_reviews', p, e)
                              = StatusesFor(policy_reviews, p, e)
          ELSE \A p \in PolicyIds, e \in ReviewerEmails :
                   StatusesFor(policy_reviews', p, e)
                       \subseteq StatusesFor(policy_reviews, p, e)]_vars

\* A reviewer has just submitted a verdict for a policy they had already
\* reviewed.
C8_Witness ==
    /\ last.op = "submit_policy_review" /\ last.code = 201
    /\ \E i \in RowsFor(policy_reviews, last.target, Email(last.tok)) :
           policy_reviews[i].created_at < policy_reviews[i].updated_at

\* The number of times an e-mail is listed in a bucket.
Listed(people, e) == Cardinality({i \in 1..Len(people) : people[i] = e})

\* C9: get_policy_reviews answers 404 exactly when the policy code resolves
\* to no policy; otherwise each bucket's count is the length of its list,
\* every e-mail with a review row of the policy is listed once, in the bucket
\* of its row's status, and the counts add up to the policy's review rows.
C9_ReviewBuckets ==
    last.op = "get_policy_reviews" =>
        IF \A r \in policies : r.policy_id # last.target
        THEN last.code = 404
        ELSE LET body == last.body[1]
                 rows == {i \in 1..Len(policy_reviews) :
                              policy_reviews[i].policy_id = last.target}
             IN /\ last.code = 200
                /\ body.confirmed.numberOfPeople = Len(body.confirmed.people)
                /\ body.needs_work.numberOfPeople = Len(body.needs_work.people)
                /\ body.confirmed.numberOfPeople + body.needs_work.numberOfPeople
                       = Cardinality(rows)
                /\ \A i \in rows :
                       LET e == policy_reviews[i].user_email
                       IN IF policy_reviews[i].review_status = "confirm"
                          THEN /\ Listed(body.confirmed.people, e) = 1
                               /\ Listed(body.needs_work.people, e) = 0
                          ELSE /\ Listed(body.confirmed.people, e) = 0
                               /\ Listed(body.needs_work.people, e) = 1

\* The reviews of a policy were read after its only reviewer, having
\* submitted twice, ended on "needs_work".
C9_Witness ==
    /\ last.op = "get_policy_reviews" /\ last.code = 200
    /\ last.body[1].confirmed.numberOfPeople = 0
    /\ last.body[1].needs_work.numberOfPeople = 1
    /\ \E i \in 1..Len(policy_reviews) :
           /\ policy_reviews[i].policy_id = last.target
           /\ policy_reviews[i].created_at < policy_reviews[i].updated_at

\* The caller's role record, as stored before the request, grants the role.
Authorized(tok, roles) ==
    /\ tok \in auth_users
    /\ \E u \in users : u.id = tok /\ u.role \in roles

\* C10: a delete_policy, delete_bylaw, delete_suggestion or delete_user
\* request from an authorized caller, naming an identifier that resolves to
\* no row, is answered 404 and changes no table.
C10_DeleteMissingIsNotFound ==
    [][/\ ( /\ last'.op = "delete_policy" /\ Authorized(last'.tok, {"admin"})
            /\ \A r \in policies : r.policy_id # last'.target )
          => (last'.code = 404 /\ tables' = tables)
       /\ ( /\ last'.op = "delete_bylaw" /\ Authorized(last'.tok, {"admin"})
            /\ \A r \in bylaws : r.id # last'.id )
          => (last'.code = 404 /\ tables' = tables)
       /\ ( /\ last'.op = "delete_suggestion"
            /\ Authorized(last'.tok, {"admin", "policy_working_group"})
            /\ \A r \in suggestions : r.id # last'.id )
          => (last'.code = 404 /\ tables' = tables)
       /\ ( /\ last'.op = "delete_user" /\ Authorized(last'.tok, {"admin"})
            /\ \A u \in users : u.id # last'.target )
          => (last'.code = 404 /\ tables' = tables)]_vars

\* An account whose role record was deleted is deleted again, beside a
\* stored policy, bylaw and suggestion.
C10_Witness ==
    /\ last.op = "delete_user" /\ last.code = 404 /\ last.target \in UserIds
    /\ policies # {} /\ bylaws # {} /\ suggestions # {}

\* The endpoints behind require_admin (or the inline admin test) and behind
\* require_suggestion_manager.
AdminOps == {"approve_policy", "approve_bylaw", "delete_policy", "delete_bylaw",
             "get_policy_versions", "reset_all_policy_reviews", "register",
             "get_all_users", "update_user_role", "delete_user"}
ManagerOps == {"get_policies", "create_policy", "update_policy", "get_bylaws",
               "create_bylaw", "update_bylaw", "get_suggestions",
               "delete_suggestion"}
RestrictedOps == AdminOps \cup ManagerOps

\* The role the request's caller resolves to, read before the request.
CallerRole == get_current_user(last'.tok).role
CallerIdentified == last'.tok # NoToken /\ TokenAccepted(last'.tok)
DataTablesUnchanged ==
    UNCHANGED <<auth_users, policies, policy_versions, bylaws, suggestions,
                policy_reviews, nextId>>
\* The users table is as it was, or a caller without a role record has
\* got one with role public.
OnlyProvisioned ==
    \/ users' = users
    \/ /\ UserRows(last'.tok) = {}
       /\ users' = users \cup {[id |-> last'.tok, email |-> Email(last'.tok),
                                role |-> "public"]}

\* C11 (amended): an identified caller of role public is answered 403 on
\* every admin and every suggestion-manager endpoint, one of role
\* policy_working_group is answered 403 on every admin endpoint, an admin is
\* never answered 401 or 403; a 403 changes no table, except that a caller
\* without a role record gets one with role public.
C11_RoleGuards ==
    [][/\ (CallerIdentified /\ last'.op \in RestrictedOps /\ CallerRole = "public")
              => last'.code = 403
       /\ (CallerIdentified /\ last'.op \in AdminOps
              /\ CallerRole = "policy_working_group") => last'.code = 403
       /\ (CallerIdentified /\ last'.op \in RestrictedOps /\ CallerRole = "admin")
              => last'.code \notin {401, 403}
       /\ (last'.op \in RestrictedOps /\ last'.code = 403)
              => DataTablesUnchanged /\ OnlyProvisioned]_vars

\* The working group was turned away from an admin endpoint.
C11_Witness ==
    /\ last.op = "approve_policy"
    /\ last.code = 403
    /\ last.tok \in auth_users
    /\ get_current_user(last.tok).role = "policy_working_group"

\* C11 as stated: a 403 on a restricted endpoint changes no state at all.
C11_RejectionChangesNothing ==
    [][(last'.op \in RestrictedOps /\ last'.code = 403)
           => UNCHANGED <<users, auth_users, policies, policy_versions, bylaws,
                          suggestions, policy_reviews, nextId>>]_vars

UniquePolicyIds ==
    \A r1 \in policies, r2 \in policies : r1.policy_id = r2.policy_id => r1 = r2

\* C12: create_policy with a policy_id that a row already carries answers
\* 400 and leaves the policies and their versions as they were; after any
\* sequence of create, update, approve and delete no two policy rows share
\* a policy_id.
C12_PolicyIdUnique ==
    [][/\ UniquePolicyIds'
       /\ (/\ last'.op = "create_policy"
           /\ last'.code \notin {401, 403}
           /\ PoliciesById(last'.target) # {})
              => /\ last'.code = 400
                 /\ UNCHANGED <<policies, policy_versions>>]_vars

\* A create_policy was refused because the policy_id is taken.
C12_Witness ==
    /\ last.op = "create_policy"
    /\ last.code = 400
    /\ PoliciesById(last.target) # {}
    /\ \E r \in policies : r.updated_at > r.created_at

\* C13 as stated: after any sequence of create_bylaw and update_bylaw no two
\* bylaw rows share a number.
C13_BylawNumberUnique ==
    \A b1 \in bylaws, b2 \in bylaws : b1.number = b2.number => b1 = b2

\* C14 as stated: every stored suggestion has status pending, whatever
\* status the create_suggestion body carried.
C14_StoredSuggestionsPending ==
    \A s \in suggestions : s.status = "pending"

\* The request came with a token the provider accepts.
Identified(tok) == tok # NoToken /\ tok \in auth_users
\* The provider or the caller's users row knows an e-mail address.
ResolvableEmail(tok) ==
    \/ Email(tok) # None
    \/ \E u \in users : u.id = tok /\ u.email # None
ReviewFailure(code) == last'.op = "submit_policy_review" /\ last'.code = code

\* C15 (amended): submit_policy_review answers 401 when the request carries
\* no accepted token, 400 when the identity has no resolvable e-mail, 404
\* when the policy code does not resolve; in each of these cases the
\* policy_reviews table is left as it was.
C15_ReviewFailures ==
    [][(last'.op = "submit_policy_review") =>
          /\ ~Identified(last'.tok) => last'.code = 401
          /\ (Identified(last'.tok) /\ ~ResolvableEmail(last'.tok))
                 => last'.code = 400
          /\ (Identified(last'.tok) /\ ResolvableEmail(last'.tok)
                 /\ PoliciesById(last'.target) = {}) => last'.code = 404
          /\ last'.code \in {400, 401, 404} => UNCHANGED policy_reviews]_vars

\* An identified caller without any e-mail address was turned away while
\* reviews of the policy are on record.
C15_Witness ==
    /\ last.op = "submit_policy_review"
    /\ last.code = 400
    /\ last.tok \in auth_users
    /\ Email(last.tok) = None
    /\ ReviewsOf(last.target) # <<>>

\* C15 as stated: a caller without a resolvable e-mail is answered 401.
C15_NoEmailUnauthorized ==
    [][(/\ last'.op = "submit_policy_review"
        /\ Identified(last'.tok)
        /\ ~ResolvableEmail(last'.tok)) => last'.code = 401]_vars

\* C16: get_policy_versions of an existing policy returns exactly the
\* policy_versions rows whose foreign key is the policy's surrogate key, each
\* once, in strictly descending version_number and numbered n, n-1, ..., 1;
\* no entry is the live policies row.
C16_VersionsNewestFirst ==
    (last.op = "get_policy_versions" /\ last.code = 200) =>
        LET n == Len(last.versions)
        IN /\ \E r \in policies : r.policy_id = last.target /\ r.id = last.id
           /\ {last.versions[i] : i \in 1..n} =
                  {v \in policy_versions : v.policy_id = last.id}
           /\ n = Cardinality({v \in policy_versions : v.policy_id = last.id})
           /\ Len(last.body) = n
           /\ \A i \in 1..n, j \in 1..n :
                  i < j => last.versions[i].version_number >
                           last.versions[j].version_number
           /\ \A i \in 1..n : last.versions[i].version_number = n - i + 1
           /\ \A i \in 1..n : \A r \in policies : last.versions[i].id # r.id

\* The history of a twice-edited policy was read.
C16_Witness ==
    /\ last.op = "get_policy_versions"
    /\ last.code = 200
    /\ Len(last.versions) >= 2

PublicListOps == {"get_approved_policies", "get_approved_bylaws"}
\* The stored rows a public read may show, by surrogate key.
ApprovedIds ==
    {r.id : r \in {p \in policies : p.status = "approved"}} \cup
    {r.id : r \in {b \in bylaws : b.status = "approved"}}

\* C17: the public reads (get_approved_policies, get_approved_policy_by_id,
\* get_approved_bylaws, get_approved_bylaw_by_id) return only rows whose
\* stored status is approved; for a policy code or bylaw key whose row is a
\* draft, also one that was approved before its last update, the read by
\* id answers 404.
C17_PublicReadsApprovedOnly ==
    /\ (last.op \in PublicListOps \cup
                    {"get_approved_policy_by_id", "get_approved_bylaw_by_id"}
        /\ last.code = 200)
           => \A i \in 1..Len(last.body) :
                  /\ last.body[i].status = "approved"
                  /\ last.body[i].id \in ApprovedIds
    /\ (last.op = "get_approved_policy_by_id"
        /\ \A r \in PoliciesById(last.target) : r.status = "draft")
           => last.code = 404
    /\ (last.op = "get_approved_bylaw_by_id"
        /\ \A r \in BylawsById(last.id) : r.status = "draft")
           => last.code = 404
    /\ (last.op = "get_approved_policy_by_id" /\ last.code = 200)
           => last.body[1].policy_id = last.target
    /\ (last.op = "get_approved_bylaw_by_id" /\ last.code = 200)
           => last.body[1].id = last.id

\* A policy that was approved and then edited is asked for by its code: 404.
C17_Witness ==
    /\ last.op = "get_approved_policy_by_id"
    /\ last.code = 404
    /\ \E r \in PoliciesById(last.target) :
           /\ r.status = "draft"
           /\ \E v \in VersionsOf(r.id) : v.status = "approved"

\* The substring occurs in the text, case-insensitively.
Matches(text, search) == Contains(lower(Chars(search)), lower(Chars(text)))
BodyIds == {last.body[i].id : i \in 1..Len(last.body)}

\* C18 as stated: get_approved_policies with a search substring returns
\* exactly the approved policies, within the section filter, whose name,
\* policy_id or content contains the substring case-insensitively.
C18_ApprovedSearchMatches ==
    (last.op = "get_approved_policies" /\ last.query.search # None) =>
        BodyIds =
            {r.id : r \in
                {p \in policies :
                    /\ p.status = "approved"
                    /\ last.query.section # None => p.section = last.query.section
                    /\ \/ Matches(p.name, last.query.search)
                       \/ Matches(p.policy_id, last.query.search)
                       \/ Matches(p.content, last.query.search)}}

\* The rows matching every filter of the restricted list request, search
\* included, in the order of the list.
FilteredPolicies ==
    order_policies({p \in policies :
        /\ last.query.status # None => p.status = last.query.status
        /\ last.query.section # None => p.section = last.query.section
        /\ last.query.policy_id # None => p.policy_id = last.query.policy_id
        /\ last.query.search # None =>
               \/ Matches(p.name, last.query.search)
               \/ Matches(p.policy_id, last.query.search)
               \/ Matches(p.content, last.query.search)})
FilteredBylaws ==
    order_bylaws({b \in bylaws :
        /\ last.query.status # None => b.status = last.query.status
        /\ last.query.search # None =>
               \/ Matches(b.title, last.query.search)
               \/ Contains(lower(Chars(last.query.search)), NumChars(b.number))
               \/ Matches(b.content, last.query.search)})
\* The body is the offset/limit page of the filtered rows.
IsPageOf(filtered) ==
    /\ Len(last.body) <= last.query.limit
    /\ BodyIds \subseteq {filtered[i].id : i \in 1..Len(filtered)}
    /\ \A p \in last.query.offset .. (last.query.offset + last.query.limit - 1) :
           p < Len(filtered) => filtered[p + 1].id \in BodyIds

\* C19 as stated: get_policies and get_bylaws return the offset/limit page
\* of the ordered rows matching all filters: every returned row matches
\* every filter, at most limit rows are returned, and the matching row at
\* position p of the filtered rows is returned when offset <= p < offset+limit.
C19_PageOfFilteredRows ==
    /\ (last.op = "get_policies" /\ last.code = 200) => IsPageOf(FilteredPolicies)
    /\ (last.op = "get_bylaws" /\ last.code = 200) => IsPageOf(FilteredBylaws)

\* The endpoints whose dependency chain starts with get_current_user.
AuthenticatedOps == RestrictedOps \cup {"get_current_user_info"}
\* The role record of the request's caller, before the request.
CallerRows == UserRows(last'.tok)
OneRowPerUser == \A u1 \in users, u2 \in users : u1.id = u2.id => u1 = u2

\* One request as get_current_user is said to treat it.
AuthenticateStep ==
    /\ (last'.op = "get_current_user_info" /\ Identified(last'.tok)) =>
          /\ last'.code = 200
          /\ IF CallerRows # {}
             THEN /\ \E u \in CallerRows : last'.body[1].identity.role = u.role
                  /\ users' = users
             ELSE /\ last'.body[1].identity.role = "public"
                  /\ users' = users \cup
                         {[id |-> last'.tok, email |-> Email(last'.tok),
                           role |-> "public"]}
    /\ (last'.op \in AuthenticatedOps /\ ~Identified(last'.tok)) =>
          /\ last'.code = 401
          /\ UNCHANGED tables

CallerWasAdmin == Identified(last'.tok) /\ get_current_user(last'.tok).role = "admin"

\* C21: the role of an existing users row changes only in a successful
\* update_user_role request of a caller whose role is admin; a users row is
\* removed only by a delete_user request of a different caller, an admin;
\* delete_user on one's own id by an admin answers 400 and changes nothing.
C21_RoleChangesByAdminOnly ==
    [][/\ \A u \in users, v \in users' :
              (u.id = v.id /\ u.role # v.role) =>
                  /\ last'.op = "update_user_role"
                  /\ last'.code = 200
                  /\ last'.target = u.id
                  /\ last'.status = v.role
                  /\ CallerWasAdmin
       /\ \A u \in users :
              (\A v \in users' : v.id # u.id) =>
                  /\ last'.op = "delete_user"
                  /\ last'.target = u.id
                  /\ last'.tok # u.id
                  /\ CallerWasAdmin
       /\ (last'.op = "delete_user" /\ CallerWasAdmin /\ last'.target = last'.tok) =>
              /\ last'.code = 400
              /\ UNCHANGED <<users, auth_users>>]_vars

\* An admin who was raised from another role has just tried to delete the
\* own account.
C21_Witness ==
    /\ last.op = "delete_user"
    /\ last.code = 400
    /\ last.target = last.tok
    /\ last.tok # "u1"
    /\ \E u \in users : u.id = last.tok /\ u.role = "admin"

EmptyBucket == [numberOfPeople |-> 0, people |-> <<>>]

\* C22: reset_all_policy_reviews by an admin leaves no review row and
\* returns as deleted_count the number of rows stored when it started; the
\* table stays empty until a submit_policy_review succeeds, and while it is
\* empty get_policy_reviews of an existing policy returns count 0 and no
\* e-mail in both buckets.
C22_ResetClearsAllReviews ==
    [][/\ (last'.op = "reset_all_policy_reviews" /\ CallerWasAdmin) =>
              /\ last'.code = 200
              /\ policy_reviews' = <<>>
              /\ last'.body[1].deleted_count = Len(policy_reviews)
       /\ (policy_reviews = <<>> /\ policy_reviews' # <<>>) =>
              (last'.op = "submit_policy_review" /\ last'.code = 201)
       /\ (last'.op = "get_policy_reviews" /\ policy_reviews' = <<>>
           /\ PoliciesById(last'.target) # {}) =>
              /\ last'.code = 200
              /\ last'.body[1].confirmed = EmptyBucket
              /\ last'.body[1].needs_work = EmptyBucket]_vars

\* Two reviews were on record when the admin's reset ran.
C22_Witness ==
    /\ last.op = "reset_all_policy_reviews"
    /\ last.code = 200
    /\ last.body[1].deleted_count = 2
    /\ policy_reviews = <<>>

\* ---- C23: update_policy's two writes are not one transaction

\* A step of process w that ends its update_policy request with a failure
\* after the guards and the row read.
UpdateFails(w) ==
    /\ inflight[w].op = "update_policy"
    /\ inflight'[w] = Idle
    /\ last'.code # 200

\* The snapshot the request of process w inserted.
SnapshotOf(request) ==
    {v \in policy_versions :
        /\ v.policy_id = request.existing_policy.id
        /\ v.version_number = request.next_version
        /\ v.name = request.existing_policy.name
        /\ v.section = request.existing_policy.section
        /\ v.content = request.existing_policy.content
        /\ v.status = request.existing_policy.status}

\* C23: an update_policy request whose version insert fails ends in a 500
\* with the policies and policy_versions tables as they were; one whose
\* version insert succeeded and whose main-row write fails ends in a 500
\* with the policies table as it was and the inserted version row still
\* stored.
C23_UnwrappedWrites ==
    [][\A w \in Workers :
          UpdateFails(w) =>
              /\ last'.code = 500
              /\ policies' = policies
              /\ policy_versions' = policy_versions
              /\ (inflight[w].pc = "update" /\ inflight[w].next_version # 0)
                     => SnapshotOf(inflight[w]) # {}]_vars

\* A request has failed at the main-row write after its version insert: the
\* clock was read for the write, the policy is as created, and the snapshot
\* is stored.
C23_Witness ==
    /\ last.op = "update_policy"
    /\ last.code = 500
    /\ now = 2
    /\ \E p \in policies :
           /\ p.content = "..."
           /\ p.status = "draft"
           /\ p.updated_at = p.created_at
           /\ \E v \in policy_versions : v.policy_id = p.id /\ v.version_number = 1

\* ---- C24: delete_policy removes the policy row alone

\* C24: a delete_policy request leaves the policy_versions and suggestions
\* tables as they were and, when it succeeds, removes exactly the policies
\* rows of its code; while a code has no policies row, get_policy_versions
\* and get_policy_reviews of that code answer 404 to a caller the guards
\* let through.
C24_DeleteLeavesOrphans ==
    [][/\ last'.op = "delete_policy" =>
              /\ policy_versions' = policy_versions
              /\ suggestions' = suggestions
              /\ last'.code = 204 =>
                     /\ PoliciesById(last'.target) # {}
                     /\ policies' = policies \ PoliciesById(last'.target)
       /\ (/\ last'.op \in {"get_policy_versions", "get_policy_reviews"}
           /\ last'.code \notin NoCredentialCodes
           /\ last'.target # None
           /\ {r \in policies' : r.policy_id = last'.target} = {}) =>
              last'.code = 404]_vars

\* The policy is gone, its version and its suggestion are still stored, and
\* the read of its history has answered 404.
C24_Witness ==
    /\ last.op = "get_policy_versions"
    /\ last.code = 404
    /\ policies = {}
    /\ \E v \in policy_versions : v.policy_id = Uuid(1)
    /\ \E s \in suggestions : s.policy_id = Uuid(1)

\* ---- C29: reviews follow the policy code, versions the surrogate key

\* The review rows of a code that are older than the policies row p of that
\* code: they were submitted for a row since deleted.
EarlierReviews(p) ==
    {i \in DOMAIN policy_reviews :
        /\ policy_reviews[i].policy_id = p.policy_id
        /\ policy_reviews[i].created_at < p.created_at}

ReviewedCount(response_body) ==
    response_body.confirmed.numberOfPeople + response_body.needs_work.numberOfPeople

OwnVersions(policy_uuid) == {v \in policy_versions : v.policy_id = policy_uuid}

\* C29: get_policy_reviews of an existing code counts every review row of
\* that code, those older than the current policies row included;
\* get_policy_versions returns exactly the versions that reference the
\* current row's surrogate key (none for a row just created, whatever
\* versions an earlier row of the code left behind); and the version an
\* update inserts is numbered one more than the versions referencing the
\* current row (1 when there are none).
C29_ReviewsByCodeVersionsByKey ==
    [][/\ (last'.op = "get_policy_reviews" /\ last'.code = 200) =>
              ReviewedCount(last'.body[1]) =
                  Cardinality({i \in DOMAIN policy_reviews :
                                  policy_reviews[i].policy_id = last'.target})
       /\ (last'.op = "get_policy_versions" /\ last'.code = 200) =>
              /\ Len(last'.versions) = Cardinality(OwnVersions(last'.id))
              /\ \A i \in DOMAIN last'.versions :
                     last'.versions[i] \in OwnVersions(last'.id)
       /\ (last'.op = "update_policy" /\ last'.code = 200) =>
              \A v \in policy_versions' \ policy_versions :
                  /\ v.policy_id = last'.id
                  /\ v.version_number = Cardinality(OwnVersions(last'.id)) + 1]_vars

\* The code was deleted and created again: its review predates the current
\* row, the earlier row's version 1 is still stored, and an update of the
\* current row has just inserted a version 1 of its own.
C29_Witness ==
    /\ last.op = "update_policy"
    /\ last.code = 200
    /\ \E p \in policies :
           /\ p.id = last.id
           /\ EarlierReviews(p) # {}
           /\ \E v \in policy_versions : v.policy_id = p.id /\ v.version_number = 1
           /\ \E v \in policy_versions : v.policy_id # p.id /\ v.version_number = 1

\* ---- C25: two update_policy requests interleave

\* C25: the version numbers of the policy_versions rows of one policy are
\* pairwise distinct, also when the storage calls of two update_policy
\* requests for that policy interleave.
C25_VersionNumbersDistinct ==
    \A v1, v2 \in policy_versions :
        (v1.policy_id = v2.policy_id /\ v1.version_number = v2.version_number)
            => v1 = v2

\* ---- C26: approve_policy interleaves with update_policy

\* C26: when an approve_policy request writes status approved, the row it
\* approves has the name, section and content the request read.
C26_ApprovedAsRead ==
    [][\A w \in Workers :
          (/\ inflight[w].op = "approve_policy"
           /\ inflight'[w] = Idle
           /\ last'.code = 200) =>
              \A p \in policies' :
                  (p.policy_id = inflight[w].policy_id /\ p.status = "approved") =>
                      /\ p.name = inflight[w].existing_policy.name
                      /\ p.section = inflight[w].existing_policy.section
                      /\ p.content = inflight[w].existing_policy.content]_vars

\* ---- C27: two submit_policy_review requests interleave

\* C27: the policy_reviews table holds at most one row for a pair of policy
\* code and reviewer e-mail, also when the storage calls of two
\* submit_policy_review requests for that pair interleave.
C27_OneReviewPerPair ==
    \A i, j \in DOMAIN policy_reviews :
        (/\ policy_reviews[i].policy_id = policy_reviews[j].policy_id
         /\ policy_reviews[i].user_email = policy_reviews[j].user_email) => i = j

\* ---- C28: what counts as a change in update_policy

\* The policies row an update_policy request found under its code.
RowBefore(code) == CHOOSE r \in policies : r.policy_id = code
RowAfter(code) == CHOOSE r \in policies' : r.policy_id = code

SameFields(a, b) == a.name = b.name /\ a.section = b.section /\ a.content = b.content

\* C28: a successful update_policy of an approved policy inserts exactly one
\* version, with status approved and the name, section and content of the
\* approved row, and leaves the policy in draft, whatever the body holds; a
\* successful update_policy of a draft policy whose body carries
\* status approved and changes no field inserts no version and leaves the
\* policy in draft.
C28_ApprovedAlwaysChanges ==
    [][(last'.op = "update_policy" /\ last'.code = 200) =>
          /\ RowBefore(last'.target).status = "approved" =>
                 /\ Cardinality(policy_versions' \ policy_versions) = 1
                 /\ \A v \in policy_versions' \ policy_versions :
                        /\ v.policy_id = RowBefore(last'.target).id
                        /\ v.status = "approved"
                        /\ SameFields(v, RowBefore(last'.target))
                 /\ RowAfter(last'.target).status = "draft"
          /\ (/\ RowBefore(last'.target).status = "draft"
              /\ last'.status = "approved"
              /\ SameFields(RowAfter(last'.target), RowBefore(last'.target))) =>
                 /\ policy_versions' = policy_versions
                 /\ RowAfter(last'.target).status = "draft"]_vars

\* An approved policy has been updated with a body that names no field: it is
\* in draft with its fields as approved, and the one version of it holds the
\* same fields with status approved.
C28_Witness ==
    /\ last.op = "update_policy"
    /\ last.code = 200
    /\ last.status = None
    /\ \E p \in policies :
           /\ p.policy_id = last.target
           /\ p.status = "draft"
           /\ p.content = "..."
           /\ \E v \in policy_versions :
                  /\ v.policy_id = p.id
                  /\ v.status = "approved"
                  /\ SameFields(v, p)
           /\ Cardinality({v \in policy_versions : v.policy_id = p.id}) = 1

\* ---- C30: the role checked is the role stored when the request arrives

\* The role in the caller's users row before the request; public without a
\* row.
StoredRole(tok) ==
    IF \E u \in users : u.id = tok
    THEN (CHOOSE u \in users : u.id = tok).role
    ELSE "public"

\* C30: a restricted request with an accepted token is decided by the role
\* the users table holds for the caller when the request arrives, whatever
\* the role was when the token was issued: stored public (or no row) is
\* answered 403 on every admin and suggestion-manager endpoint, stored
\* policy_working_group is answered 403 on every admin endpoint and passes
\* the guard of every suggestion-manager endpoint, stored admin passes the
\* guard everywhere.
C30_RoleAtRequestTime ==
    [][(Identified(last'.tok) /\ last'.op \in RestrictedOps) =>
          /\ StoredRole(last'.tok) = "public" => last'.code = 403
          /\ StoredRole(last'.tok) = "policy_working_group" =>
                 (last'.code = 403 <=> last'.op \in AdminOps)
          /\ StoredRole(last'.tok) = "admin" => last'.code \notin {401, 403}]_vars

\* The account that started as the administrator has been set to public by
\* an account it had raised to admin, and its next admin request was
\* answered 403.
C30_Witness ==
    /\ last.tok = "u1"
    /\ last.op = "get_all_users"
    /\ last.code = 403
    /\ "u1" \in auth_users
    /\ \E u \in users : u.id = "u1" /\ u.role = "public"
    /\ \E u \in users : u.id # "u1" /\ u.role = "admin"
====
